---- MODULE Spec2Model ----
(***************************************************************************)
(* Position & summary engine of the accounts dashboard backend.            *)
(*                                                                         *)
(* The ledger (cash_movements, fund_share_movements, fund_navs) is written *)
(* by the admin routes of routers/movements.py and routers/funds.py and    *)
(* read by AccountRepository._get_account_summaries and the FundRepository *)
(* read operations of db_models.py.                                        *)
(*                                                                         *)
(* Decimal values are modelled as Python Decimal / SQL numeric values do   *)
(* arithmetic: a pair of an integer coefficient c and a scale e, denoting  *)
(* c / 10^e.  Addition aligns the scales, multiplication adds them.        *)
(*                                                                         *)
(* A table is the sequence of its live rows in created_at order, and a row *)
(* id in a request names the row at that rank: the reads of the engine     *)
(* depend on the rows and on their creation order only.                    *)
(***************************************************************************)
EXTENDS Integers, Sequences, FiniteSets, TLC

VARIABLES
    has_commission_rate,   \* does accounts.commission_rate exist in the schema
    commission_rate,       \* accounts.commission_rate, per account (None = NULL)
    cash_movements,        \* table of [account_id, type, amount]
    fund_share_movements,  \* table of [account_id, fund_id, type, shares_change]
    fund_navs,             \* table of [fund_id, as_of_date, share_value]
    response,              \* the response of the last request
    txn,                   \* the account-summary computation in progress, if any
    request_times,         \* RateLimitMiddleware.request_times: per client IP, times recorded
    last_cleanup,          \* RateLimitMiddleware.last_cleanup
    clock,                 \* time.time(), in seconds
    passed,                \* every counted request handed to call_next: [ip, time]
    answer,                \* what dispatch did with the last request
    pool,                  \* database.pool: idle connections and connections in use
    pending,               \* per connection, the uncommitted write of its open transaction
    call,                  \* the repository call in progress, statement by statement
    app_users,             \* table of [firebase_uid, status]
    uid_unique,            \* does app_users allow only one row per firebase_uid
    settings,              \* app.config.settings and whether firebase_app is initialized
    requests,              \* the signup and create_user requests in progress
    answers,               \* the answers of the user-creating requests: [firebase_uid, code]
    current_user           \* what get_current_user did last

limiter == <<request_times, last_cleanup, clock, passed, answer>>

scoped == <<pool, pending, call>>

identity == <<app_users, uid_unique, settings, requests, answers, current_user>>

\* what the routes and queries on the ledger leave alone
elsewhere == <<limiter, scoped, identity>>

vars == <<has_commission_rate, commission_rate, cash_movements,
          fund_share_movements, fund_navs, response, txn, elsewhere>>

ledger == <<cash_movements, fund_share_movements, fund_navs>>

schema == <<has_commission_rate, commission_rate>>

----------------------------------------------------------------------------
(* Bounds of the model *)

MaxCash == 2

MaxShares == 2

MaxNavs == 2

MaxDate == 2

MaxRows == 3

\* NAV tables of the fund-performance specification: every table of up to
\* MaxPerfNavs rows over PerfDates, and one-fund tables of up to MaxPerfRows rows
MaxPerfNavs == 3

MaxPerfDate == 3

MaxPerfRows == 13

MaxLimit == 3
\* the clock stops at MaxClock seconds
MaxClock == 330
\* at most MaxPassed counted requests are passed on
MaxPassed == 3
\* at most MaxUsers rows in app_users
MaxUsers == 2
\* at most MaxAnswers user-creating requests get past token verification
MaxAnswers == 2

----------------------------------------------------------------------------
(* Optional values: None is the empty tuple, Some(x) the one-element tuple *)

None == <<>>

Some(x) == <<x>>

IsSome(o) == o /= <<>>

Get(o) == o[1]

----------------------------------------------------------------------------
(* Decimal arithmetic *)

RECURSIVE Pow10(_)
Pow10(n) == IF n = 0 THEN 1 ELSE 10 * Pow10(n - 1)

Dec(c, e) == [c |-> c, e |-> e]

DecZero == Dec(0, 0)

DecScale(a, b) == IF a.e >= b.e THEN a.e ELSE b.e

DecAdd(a, b) ==
    LET e == DecScale(a, b)
    IN  Dec(a.c * Pow10(e - a.e) + b.c * Pow10(e - b.e), e)

DecNeg(a) == Dec(0 - a.c, a.e)

DecSub(a, b) == DecAdd(a, DecNeg(b))

DecMul(a, b) == Dec(a.c * b.c, a.e + b.e)

DecEq(a, b) == a.c * Pow10(b.e) = b.c * Pow10(a.e)

DecLe(a, b) == a.c * Pow10(b.e) <= b.c * Pow10(a.e)

DecIsZero(a) == a.c = 0

DecGtZero(a) == a.c > 0

\* Python's `x or Decimal("0")`: a zero Decimal is falsy
OrZero(a) == IF DecIsZero(a) THEN DecZero ELSE a

----------------------------------------------------------------------------
(* Reference data: users, accounts and funds *)

Users == {1, 2}

IsAdmin(u) == u = 2

Accounts == {1, 2}

AccountUser(a) == a

\* an account id / a fund id that no row carries
NoAccount == Cardinality(Accounts) + 1

Funds == {1, 2}

NoFund == Cardinality(Funds) + 1

CashMovementType == {"deposit", "withdrawal", "fee"}

FundShareMovementType == {"subscription", "redemption"}

\* Values a request may carry
Amounts == {Dec(1000, 0)}

Shares == {Dec(1, 0), Dec(2, 0)}

ShareValues == {Dec(900, 0), Dec(1200, 0)}

Dates == 1..MaxDate

\* What the accounts table may hold: no commission_rate column, or a column
\* holding a fraction in [0,1] or NULL
RateConfigs ==
    { [has |-> FALSE, rate |-> [a \in Accounts |-> None]],
      [has |-> TRUE,  rate |-> (1 :> Some(Dec(20, 2)) @@ 2 :> None)] }

----------------------------------------------------------------------------
(* Helpers on tables *)

MaxOf(S) == CHOOSE x \in S : \A y \in S : y <= x

MinOf(S) == CHOOSE x \in S : \A y \in S : x <= y

Ids(table) == DOMAIN table

Insert(table, row) == Append(table, row)

Delete(table, id) == SubSeq(table, 1, id - 1) \o SubSeq(table, id + 1, Len(table))

RECURSIVE SortedSeq(_)
SortedSeq(S) == IF S = {} THEN <<>> ELSE <<MinOf(S)>> \o SortedSeq(S \ {MinOf(S)})

\* SQL SUM over the rows `ids`, each contributing val[i]
RECURSIVE DecSum(_, _)
DecSum(ids, val) ==
    IF ids = {} THEN DecZero
    ELSE LET i == MinOf(ids) IN DecAdd(val[i], DecSum(ids \ {i}, val))

----------------------------------------------------------------------------
(* RateLimitMiddleware (middleware/rate_limit.py): construction *)

MAX_REQUESTS_PER_MINUTE == 10

CLEANUP_INTERVAL == 300

\* the max_requests the middleware is constructed with
max_requests == 2

\* the keys of request_times: the addresses the requests carry, and "unknown"
ClientIps == {"10.0.0.1", "unknown"}

\* no request seen yet
NoAnswer ==
    [client_ip |-> "none", counted |-> FALSE, passed_on |-> FALSE, status_code |-> 0,
     retry_after |-> None]

\* __init__: request_times = defaultdict(list), last_cleanup = time.time()
InitLimiter ==
    /\ request_times = [ip \in ClientIps |-> <<>>]
    /\ clock = 0
    /\ last_cleanup = 0
    /\ passed = <<>>
    /\ answer = NoAnswer

----------------------------------------------------------------------------
(* The connection pool (database.py): init_db *)

minconn == 1

maxconn == 10

\* no repository call in progress
NoCall ==
    [op |-> "none", pc |-> "idle", table |-> "none", id |-> 0, data |-> <<>>,
     scope |-> 0, conn |-> None, closed |-> FALSE, rowcount |-> 0, exc |-> FALSE,
     result |-> None, bodies |-> 0, raised |-> 0, wrote |-> FALSE, existed |-> FALSE,
     before |-> <<>>]

\* SimpleConnectionPool(minconn=1, maxconn=10): minconn idle connections, none in use,
\* no connection with a transaction open
InitPool ==
    /\ pool = [free |-> [i \in 1..minconn |-> i], used |-> {}]
    /\ pending = [c \in 1..maxconn |-> None]
    /\ call = NoCall

----------------------------------------------------------------------------
(* Users and authentication (middleware/auth.py, routers/users.py): configuration *)

AppUserStatus == {"invited", "active", "suspended", "disabled"}

\* no user-creating request in this slot
NoRequest ==
    [kind |-> "none", pc |-> "idle", firebase_uid |-> "none", status |-> "none", code |-> 0]

\* the concurrent requests that create users
Requests == {1, 2}

\* no get_current_user yet
NoUser == [status_code |-> 0, user |-> None]

\* the tables and requests of the user routes at start: no user yet
InitUserTable ==
    /\ app_users = <<>>
    /\ requests = [r \in Requests |-> NoRequest]
    /\ answers = <<>>
    /\ current_user = NoUser

\* Settings() with DEV_MODE and DEV_USER_ID unset, Firebase initialized, and an
\* app_users table that allows one row per firebase_uid
InitIdentity ==
    /\ InitUserTable
    /\ settings = [dev_mode |-> FALSE, dev_user_id |-> None, firebase_app |-> TRUE]
    /\ uid_unique = TRUE

InitElsewhere == InitLimiter /\ InitPool /\ InitIdentity

----------------------------------------------------------------------------
\* no account-summary computation in progress
Idle ==
    [pc |-> "idle", filter_user_id |-> None, isolation |-> "none", account_rows |-> <<>>,
     positions_map |-> <<>>, nav_map |-> <<>>,
     snapshot |-> [positions_map |-> <<>>, nav_maps |-> {}]]

Rows == Len(cash_movements) + Len(fund_share_movements) + Len(fund_navs)

Reply(op, code, filter, body) == [op |-> op, status |-> code, filter |-> filter, body |-> body]

\* The response of a write route.  Its filter field keeps what the request was: the
\* user who sent it, and whether it named an account id or a fund id that does not exist
Status(u, dangling, code) ==
    Reply("write", code, [user |-> u, dangling |-> dangling], None)

\* an empty ledger, no request answered yet
InitLedger ==
    /\ \E cfg \in RateConfigs :
          /\ has_commission_rate = cfg.has
          /\ commission_rate = cfg.rate
    /\ cash_movements = <<>>
    /\ fund_share_movements = <<>>
    /\ fund_navs = <<>>
    /\ response = Reply("none", 0, None, None)
    /\ txn = Idle

Init == InitLedger /\ InitElsewhere

----------------------------------------------------------------------------
(* Cash movement routes (routers/movements.py) *)

Opt(S) == {None} \cup {Some(x) : x \in S}

\* require_admin: HTTP 403
Forbidden(u, dangling) ==
    /\ response' = Status(u, dangling, 403)
    /\ UNCHANGED <<elsewhere, ledger, schema, txn>>

\* HTTP 404
NotFound(u, dangling) ==
    /\ response' = Status(u, dangling, 404)
    /\ UNCHANGED <<elsewhere, ledger, schema, txn>>

\* the database refuses the statement: the exception leaves get_db after a rollback
\* and the request ends with HTTP 500
IntegrityError(u, dangling) ==
    /\ response' = Status(u, dangling, 500)
    /\ UNCHANGED <<elsewhere, ledger, schema, txn>>

\* does the request name an account id or a fund id that does not exist
NoSuchAccount(account_id) == account_id \notin Accounts

NoSuchFund(fund_id) == IsSome(fund_id) /\ Get(fund_id) \notin Funds

\* POST /movements/cash
create_cash_movement(u, account_id, type, amount, fund_id) ==
    LET dangling == NoSuchAccount(account_id) \/ NoSuchFund(fund_id)
    IN  IF ~IsAdmin(u) THEN Forbidden(u, dangling)
        ELSE IF NoSuchAccount(account_id) THEN NotFound(u, dangling)
        ELSE IF NoSuchFund(fund_id) THEN NotFound(u, dangling)
        ELSE /\ Len(cash_movements) < MaxCash
             /\ Rows < MaxRows
             /\ cash_movements' = Insert(cash_movements,
                    [account_id |-> account_id, type |-> type, amount |-> amount])
             /\ response' = Status(u, dangling, 201)
             /\ UNCHANGED <<elsewhere, fund_share_movements, fund_navs, schema, txn>>

\* PUT /movements/cash/{movement_id}
update_cash_movement(u, movement_id, type, amount, fund_id) ==
    LET dangling == NoSuchFund(fund_id)
    IN  IF ~IsAdmin(u) THEN Forbidden(u, dangling)
        ELSE IF NoSuchFund(fund_id) THEN NotFound(u, dangling)
        ELSE IF movement_id \notin DOMAIN cash_movements THEN NotFound(u, dangling)
        ELSE /\ cash_movements' = [cash_movements EXCEPT ![movement_id] =
                    [account_id |-> @.account_id,
                     type       |-> IF IsSome(type) THEN Get(type) ELSE @.type,
                     amount     |-> IF IsSome(amount) THEN Get(amount) ELSE @.amount]]
             /\ response' = Status(u, dangling, 200)
             /\ UNCHANGED <<elsewhere, fund_share_movements, fund_navs, schema, txn>>

\* the route without its Depends(require_admin)
delete_cash_movement_NoAdminCheck(u, movement_id) ==
    IF movement_id \notin DOMAIN cash_movements THEN NotFound(u, FALSE)
    ELSE /\ cash_movements' = Delete(cash_movements, movement_id)
         /\ response' = Status(u, FALSE, 204)
         /\ UNCHANGED <<elsewhere, fund_share_movements, fund_navs, schema, txn>>

\* DELETE /movements/cash/{movement_id}
delete_cash_movement(u, movement_id) ==
    IF ~IsAdmin(u) THEN Forbidden(u, FALSE)
    ELSE IF movement_id \notin DOMAIN cash_movements THEN NotFound(u, FALSE)
    ELSE /\ cash_movements' = Delete(cash_movements, movement_id)
         /\ response' = Status(u, FALSE, 204)
         /\ UNCHANGED <<elsewhere, fund_share_movements, fund_navs, schema, txn>>

----------------------------------------------------------------------------
(* Fund share movement routes (routers/movements.py) *)

\* POST /movements/fund-share.  The route looks the account up and not the fund: with
\* a fund id that no fund has, the INSERT either breaks a foreign key of the table or,
\* on a table without one, stores the row.  The row carries the cash_movement_id of
\* the request
create_fund_share_movement(u, account_id, fund_id, cash_movement_id, type, shares_change) ==
    LET dangling == NoSuchAccount(account_id) \/ fund_id \notin Funds
        inserted ==
            /\ Len(fund_share_movements) < MaxShares
            /\ Rows < MaxRows
            /\ fund_share_movements' =
                   Insert(fund_share_movements,
                          [account_id |-> account_id, fund_id |-> fund_id,
                           cash_movement_id |-> cash_movement_id,
                           type |-> type, shares_change |-> shares_change])
            /\ response' = Status(u, dangling, 201)
            /\ UNCHANGED <<elsewhere, cash_movements, fund_navs, schema, txn>>
    IN  IF ~IsAdmin(u) THEN Forbidden(u, dangling)
        ELSE IF NoSuchAccount(account_id) THEN NotFound(u, dangling)
        ELSE IF fund_id \notin Funds THEN IntegrityError(u, dangling) \/ inserted
        ELSE inserted

\* PUT /movements/fund-share/{movement_id}.  The new fund id is not looked up either
update_fund_share_movement(u, movement_id, fund_id, shares_change) ==
    LET dangling == NoSuchFund(fund_id)
        updated ==
            /\ fund_share_movements' = [fund_share_movements EXCEPT ![movement_id] =
                   [account_id    |-> @.account_id,
                    fund_id       |-> IF IsSome(fund_id) THEN Get(fund_id) ELSE @.fund_id,
                    cash_movement_id |-> @.cash_movement_id,
                    type          |-> @.type,
                    shares_change |-> IF IsSome(shares_change) THEN Get(shares_change)
                                      ELSE @.shares_change]]
            /\ response' = Status(u, dangling, 200)
            /\ UNCHANGED <<elsewhere, cash_movements, fund_navs, schema, txn>>
    IN  IF ~IsAdmin(u) THEN Forbidden(u, dangling)
        ELSE IF movement_id \notin DOMAIN fund_share_movements THEN NotFound(u, dangling)
        ELSE IF NoSuchFund(fund_id) THEN IntegrityError(u, dangling) \/ updated
        ELSE updated

\* DELETE /movements/fund-share/{movement_id}
delete_fund_share_movement(u, movement_id) ==
    IF ~IsAdmin(u) THEN Forbidden(u, FALSE)
    ELSE IF movement_id \notin DOMAIN fund_share_movements THEN NotFound(u, FALSE)
    ELSE /\ fund_share_movements' = Delete(fund_share_movements, movement_id)
         /\ response' = Status(u, FALSE, 204)
         /\ UNCHANGED <<elsewhere, cash_movements, fund_navs, schema, txn>>

----------------------------------------------------------------------------
(* NAV routes (routers/funds.py) *)

\* POST /funds/{fund_id}/navs
create_nav(u, fund_id, as_of_date, share_value) ==
    LET dangling == fund_id \notin Funds
    IN  IF ~IsAdmin(u) THEN Forbidden(u, dangling)
        ELSE IF fund_id \notin Funds THEN NotFound(u, dangling)
        ELSE /\ Len(fund_navs) < MaxNavs
             /\ Rows < MaxRows
             /\ fund_navs' = Insert(fund_navs,
                    [fund_id |-> fund_id, as_of_date |-> as_of_date,
                     share_value |-> share_value])
             /\ response' = Status(u, dangling, 201)
             /\ UNCHANGED <<elsewhere, cash_movements, fund_share_movements, schema, txn>>

\* PUT /funds/navs/{nav_id}
update_nav(u, nav_id, as_of_date, share_value) ==
    IF ~IsAdmin(u) THEN Forbidden(u, FALSE)
    ELSE IF nav_id \notin DOMAIN fund_navs THEN NotFound(u, FALSE)
    ELSE /\ fund_navs' = [fund_navs EXCEPT ![nav_id] =
                [fund_id     |-> @.fund_id,
                 as_of_date  |-> IF IsSome(as_of_date) THEN Get(as_of_date) ELSE @.as_of_date,
                 share_value |-> IF IsSome(share_value) THEN Get(share_value)
                                 ELSE @.share_value]]
         /\ response' = Status(u, FALSE, 200)
         /\ UNCHANGED <<elsewhere, cash_movements, fund_share_movements, schema, txn>>

\* DELETE /funds/navs/{nav_id}
delete_nav(u, nav_id) ==
    IF ~IsAdmin(u) THEN Forbidden(u, FALSE)
    ELSE IF nav_id \notin DOMAIN fund_navs THEN NotFound(u, FALSE)
    ELSE /\ fund_navs' = Delete(fund_navs, nav_id)
         /\ response' = Status(u, FALSE, 204)
         /\ UNCHANGED <<elsewhere, cash_movements, fund_share_movements, schema, txn>>

----------------------------------------------------------------------------
(* AccountRepository._get_account_summaries (db_models.py) *)

\* the account query with an inner JOIN on cash_movements in place of the LEFT JOIN
AccountRows_InnerJoin(filter_user_id) ==
    SortedSeq({a \in Accounts :
                  /\ AccountUser(a) \in Users
                  /\ (IsSome(filter_user_id) => AccountUser(a) = Get(filter_user_id))
                  /\ \E i \in Ids(cash_movements) : cash_movements[i].account_id = a})

\* accounts a JOIN app_users u [WHERE a.user_id = %s] ORDER BY ...
AccountRows(filter_user_id) ==
    SortedSeq({a \in Accounts :
                  /\ AccountUser(a) \in Users
                  /\ (IsSome(filter_user_id) => AccountUser(a) = Get(filter_user_id))})

\* a read that misses the movement created last
CashRowsOf_Stale(a) ==
    {i \in DOMAIN cash_movements :
        cash_movements[i].account_id = a /\ i < Len(cash_movements)}

\* LEFT JOIN cash_movements cm ON cm.account_id = a.id
CashRowsOf(a) == {i \in DOMAIN cash_movements : cash_movements[i].account_id = a}

\* COALESCE(SUM(CASE WHEN cm.type = t THEN cm.amount ELSE 0 END), 0)
CashTotal(a, t) ==
    DecSum(CashRowsOf(a),
           [i \in CashRowsOf(a) |->
               IF cash_movements[i].type = t THEN cash_movements[i].amount ELSE DecZero])

\* JOIN fund_share_movements fsm ON fsm.account_id = a.id JOIN funds f ON f.id = fsm.fund_id
ShareRowsOf(a, f) ==
    {i \in DOMAIN fund_share_movements :
        /\ fund_share_movements[i].account_id = a
        /\ fund_share_movements[i].fund_id = f}

\* the CASE without its redemption branch negated
SignedShares_Unsigned(type, shares_change) ==
    IF type = "subscription" \/ type = "redemption" THEN shares_change ELSE DecZero

\* CASE WHEN subscription THEN shares_change WHEN redemption THEN -shares_change ELSE 0
SignedShares(type, shares_change) ==
    IF type = "subscription" THEN shares_change
    ELSE IF type = "redemption" THEN DecNeg(shares_change)
    ELSE DecZero

\* SUM(...) AS total_shares ... GROUP BY a.id, f.id
TotalShares(a, f) ==
    DecSum(ShareRowsOf(a, f),
           [i \in ShareRowsOf(a, f) |->
               SignedShares(fund_share_movements[i].type,
                            fund_share_movements[i].shares_change)])

\* the position query without its WHERE total_shares <> 0
PositionKept_All(a, f) == TRUE

\* SELECT * FROM position_data WHERE total_shares <> 0
PositionKept(a, f) == ~DecIsZero(TotalShares(a, f))

\* the funds of the position rows of account a, ORDER BY account_id, fund_name
PositionFunds(a) ==
    SortedSeq({f \in Funds : ShareRowsOf(a, f) /= {} /\ PositionKept(a, f)})

\* SELECT DISTINCT ON (fund_id) ... ORDER BY fund_id, as_of_date DESC:
\* the rows DISTINCT ON may keep for fund f, the first of its rows in that order
LatestNavCandidates(f) ==
    {i \in DOMAIN fund_navs :
        /\ fund_navs[i].fund_id = f
        /\ \A j \in DOMAIN fund_navs :
              fund_navs[j].fund_id = f => fund_navs[j].as_of_date <= fund_navs[i].as_of_date}

FundsWithNav == {f \in Funds : \E i \in DOMAIN fund_navs : fund_navs[i].fund_id = f}

\* the results the latest-NAV query may have: for each fund with NAV rows, one of the
\* rows DISTINCT ON may keep
NavChoices == {m \in [FundsWithNav -> DOMAIN fund_navs] :
                  \A f \in FundsWithNav : m[f] \in LatestNavCandidates(f)}

\* nav_map = {row["fund_id"]: row for row in nav_rows}, one per result of the query
NavMaps == {[f \in FundsWithNav |-> fund_navs[m[f]]] : m \in NavChoices}

\* latest_nav["share_value"] if latest_nav else None
LatestNavValue(nav_map, f) ==
    IF f \in DOMAIN nav_map THEN Some(nav_map[f].share_value) ELSE None

\* a market value defaulted to zero when the fund has no NAV
MarketValue_ZeroDefault(total_shares, latest_nav_value) ==
    IF IsSome(latest_nav_value) THEN Some(DecMul(total_shares, Get(latest_nav_value)))
    ELSE Some(DecZero)

\* market_value = Decimal(total_shares) * Decimal(latest_nav_value), None without a NAV
MarketValue(total_shares, latest_nav_value) ==
    IF IsSome(latest_nav_value) THEN Some(DecMul(total_shares, Get(latest_nav_value)))
    ELSE None

\* row["commission_rate"]: a.commission_rate, or NULL::numeric without the column
CommissionRateRaw(a) == IF has_commission_rate THEN commission_rate[a] ELSE None

\* a row of the account query
AccountRow(a) ==
    [account_id |-> a,
     commission_rate |-> CommissionRateRaw(a),
     total_deposits |-> CashTotal(a, "deposit"),
     total_withdrawals |-> CashTotal(a, "withdrawal"),
     total_fees |-> CashTotal(a, "fee")]

\* account_rows = cur.fetchall() of the account query
AccountQuery(filter_user_id) ==
    LET accounts == AccountRows(filter_user_id)
    IN  [k \in 1..Len(accounts) |-> AccountRow(accounts[k])]

\* a row of the position query
PositionRow(a, f) == [account_id |-> a, fund_id |-> f, total_shares |-> TotalShares(a, f)]

\* positions_map: the rows of the position query by account, in the query's order
PositionQuery(filter_user_id) ==
    LET accounts == AccountRows(filter_user_id)
    IN  [a \in {accounts[k] : k \in 1..Len(accounts)} |->
            [k \in 1..Len(PositionFunds(a)) |-> PositionRow(a, PositionFunds(a)[k])]]

\* the positions_map of a computation that skipped the position query
NoPositions == <<>>

\* the FundPosition built for one position row
Position(pos, nav_map) ==
    LET total_shares == OrZero(pos.total_shares)
        latest_nav_value == LatestNavValue(nav_map, pos.fund_id)
    IN  [fund_id |-> pos.fund_id,
         total_shares |-> total_shares,
         latest_share_value |-> latest_nav_value,
         market_value |-> MarketValue(total_shares, latest_nav_value)]

\* positions_map.get(row["account_id"], []) turned into FundPosition objects
\* every account given the positions of all the accounts
Positions_OfAllAccounts(account_id, positions_map, nav_map) ==
    LET RECURSIVE Concat(_)
        Concat(S) == IF S = {} THEN <<>>
                     ELSE positions_map[MinOf(S)] \o Concat(S \ {MinOf(S)})
        account_positions == Concat(DOMAIN positions_map)
    IN  [k \in 1..Len(account_positions) |-> Position(account_positions[k], nav_map)]

Positions(account_id, positions_map, nav_map) ==
    LET account_positions ==
            IF account_id \in DOMAIN positions_map THEN positions_map[account_id] ELSE <<>>
    IN  [k \in 1..Len(account_positions) |-> Position(account_positions[k], nav_map)]

\* a total that leaves out the negative market values
RECURSIVE TotalMarketValue_Clamped(_)
TotalMarketValue_Clamped(positions) ==
    IF positions = <<>> THEN DecZero
    ELSE LET rest == TotalMarketValue_Clamped(SubSeq(positions, 1, Len(positions) - 1))
             last == positions[Len(positions)]
         IN  IF IsSome(last.market_value) /\ DecGtZero(Get(last.market_value))
             THEN DecAdd(rest, Get(last.market_value))
             ELSE rest

\* total_market_value += market_value, for the positions that have one
RECURSIVE TotalMarketValue(_)
TotalMarketValue(positions) ==
    IF positions = <<>> THEN DecZero
    ELSE LET rest == TotalMarketValue(SubSeq(positions, 1, Len(positions) - 1))
             last == positions[Len(positions)]
         IN  IF IsSome(last.market_value) THEN DecAdd(rest, Get(last.market_value))
             ELSE rest

\* a rate that falls back to a house rate of 0.20 when the account has none
CommissionRate_HouseRate(commission_rate_raw) ==
    IF IsSome(commission_rate_raw) THEN Get(commission_rate_raw) ELSE Dec(20, 2)

\* commission_rate = Decimal("0") unless the raw value is not None
CommissionRate(commission_rate_raw) ==
    IF IsSome(commission_rate_raw) THEN Get(commission_rate_raw) ELSE DecZero

\* the commission without its `if total_gains > 0`
CalculatedCommissions_Unguarded(total_gains, rate) == DecMul(total_gains, rate)

\* calculated_commissions: total_gains * commission_rate if total_gains > 0, else 0
CalculatedCommissions(total_gains, rate) ==
    IF DecGtZero(total_gains) THEN DecMul(total_gains, rate) ELSE DecZero

\* net invested computed before the fees are taken off
NetInvested_BeforeFees(total_deposits, total_withdrawals, total_fees) ==
    DecSub(total_deposits, total_withdrawals)

\* net_invested = total_deposits - total_withdrawals - total_fees
NetInvested(total_deposits, total_withdrawals, total_fees) ==
    DecSub(DecSub(total_deposits, total_withdrawals), total_fees)

\* the fields class AccountSummary declares, of those the model keeps
AccountSummaryFields ==
    {"account_id", "total_deposits", "total_withdrawals", "total_fees", "net_invested",
     "positions"}

\* AccountSummary(**account_data): pydantic keeps the declared fields and ignores the rest
AccountSummary(account_data) ==
    [field \in DOMAIN account_data \cap AccountSummaryFields |-> account_data[field]]

\* the AccountSummary of one account row
Summary(row, positions_map, nav_map) ==
    LET total_deposits == OrZero(row.total_deposits)
        total_withdrawals == OrZero(row.total_withdrawals)
        explicit_fees == OrZero(row.total_fees)
        positions == Positions(row.account_id, positions_map, nav_map)
        total_market_value == TotalMarketValue(positions)
        rate == CommissionRate(row.commission_rate)
        net_invested_before_commissions ==
            DecSub(DecSub(total_deposits, total_withdrawals), explicit_fees)
        total_gains == DecSub(total_market_value, net_invested_before_commissions)
        calculated_commissions == CalculatedCommissions(total_gains, rate)
        total_fees == DecAdd(explicit_fees, calculated_commissions)
        net_invested == NetInvested(total_deposits, total_withdrawals, total_fees)
        \* str(commission_rate) if commission_rate else None
        commission_rate_value == IF DecIsZero(rate) THEN None ELSE Some(rate)
        account_data ==
            [account_id |-> row.account_id,
             commission_rate |-> commission_rate_value,
             total_deposits |-> total_deposits,
             total_withdrawals |-> total_withdrawals,
             total_fees |-> total_fees,
             net_invested |-> net_invested,
             positions |-> positions]
    IN  AccountSummary(account_data)

\* the loop over account_rows
Summaries(account_rows, positions_map, nav_map) ==
    [k \in 1..Len(account_rows) |-> Summary(account_rows[k], positions_map, nav_map)]

\* the computation with its queries run at once, on one state of the ledger
_get_account_summaries(filter_user_id, nav_map) ==
    LET account_rows == AccountQuery(filter_user_id)
        positions_map == IF account_rows /= <<>> THEN PositionQuery(filter_user_id)
                         ELSE NoPositions
    IN  Summaries(account_rows, positions_map, nav_map)

\* GET /accounts/me
list_my_accounts(u) ==
    /\ \E nav_map \in NavMaps :
          response' = Reply("account_summaries", 200, Some(u),
                            _get_account_summaries(Some(u), nav_map))
    /\ UNCHANGED <<elsewhere, ledger, schema, txn>>

\* GET /accounts/summary
list_all_accounts(u) ==
    IF ~IsAdmin(u) THEN Forbidden(u, FALSE)
    ELSE /\ \E nav_map \in NavMaps :
               response' = Reply("account_summaries", 200, None,
                                 _get_account_summaries(None, nav_map))
         /\ UNCHANGED <<elsewhere, ledger, schema, txn>>

\* FundRepository.get_latest_navs_map
get_latest_navs_map ==
    /\ \E nav_map \in NavMaps :
          response' = Reply("latest_navs", 200, None,
                            [f \in DOMAIN nav_map |->
                                [fund_id |-> f,
                                 share_value |-> nav_map[f].share_value,
                                 as_of_date |-> nav_map[f].as_of_date]])
    /\ UNCHANGED <<elsewhere, ledger, schema, txn>>

----------------------------------------------------------------------------
(* FundRepository.get_fund_performance_by_id / get_fund_performance         *)

\* Query(12, ge=1, le=365) of both performance routes
DefaultLimit == 12

MinQueryLimit == 1

MaxQueryLimit == 365

\* `limit if limit else 365` of get_fund_performance_by_id
FallbackLimit == 365

NavRowsOf(f) == {i \in Ids(fund_navs) : fund_navs[i].fund_id = f}

\* the orders of ORDER BY as_of_date ASC
RECURSIVE DescOrders_Asc(_)
DescOrders_Asc(S) ==
    IF S = {} THEN {<<>>}
    ELSE LET top == {i \in S : \A j \in S : fund_navs[i].as_of_date <= fund_navs[j].as_of_date}
         IN  UNION {{<<i>> \o rest : rest \in DescOrders_Asc(S \ {i})} : i \in top}

\* the orders in which ORDER BY as_of_date DESC may return the rows S
RECURSIVE DescOrders(_)
DescOrders(S) ==
    IF S = {} THEN {<<>>}
    ELSE LET top == {i \in S : \A j \in S : fund_navs[j].as_of_date <= fund_navs[i].as_of_date}
         IN  UNION {{<<i>> \o rest : rest \in DescOrders(S \ {i})} : i \in top}

\* LIMIT n
Limit(rows, n) == SubSeq(rows, 1, IF n < Len(rows) THEN n ELSE Len(rows))

FundNavPoint(i) ==
    [as_of_date |-> fund_navs[i].as_of_date, share_value |-> fund_navs[i].share_value]

\* navs.sort(key=lambda n: n.as_of_date): a stable sort, ascending
RECURSIVE SortByDate(_)
SortByDate(navs) ==
    IF navs = <<>> THEN <<>>
    ELSE LET sorted == SortByDate(SubSeq(navs, 1, Len(navs) - 1))
             last == navs[Len(navs)]
             k == Cardinality({j \in 1..Len(sorted) : sorted[j].as_of_date <= last.as_of_date})
         IN  SubSeq(sorted, 1, k) \o <<last>> \o SubSeq(sorted, k + 1, Len(sorted))

\* the operation without its `if not fund_row: return None`
get_fund_performance_by_id_NoFundCheck(fund_id, limit, rows) ==
    LET fetched == Limit(rows, IF IsSome(limit) /\ Get(limit) /= 0 THEN Get(limit)
                               ELSE FallbackLimit)
        navs == SortByDate([k \in 1..Len(fetched) |-> FundNavPoint(fetched[k])])
    IN  Some([fund_id |-> fund_id,
              latest_share_value |->
                  IF navs /= <<>> THEN Some(navs[Len(navs)].share_value) ELSE None,
              navs |-> navs])

\* FundRepository.get_fund_performance_by_id; rows is the query's row order
get_fund_performance_by_id(fund_id, limit, rows) ==
    IF fund_id \notin Funds THEN None
    ELSE LET fetched == Limit(rows, IF IsSome(limit) /\ Get(limit) /= 0 THEN Get(limit)
                                    ELSE FallbackLimit)
             navs == SortByDate([k \in 1..Len(fetched) |-> FundNavPoint(fetched[k])])
         IN  Some([fund_id |-> fund_id,
                   latest_share_value |->
                       IF navs /= <<>> THEN Some(navs[Len(navs)].share_value) ELSE None,
                   navs |-> navs])

\* the orders in which ORDER BY f.id, fn.as_of_date DESC may return funds JOIN fund_navs
RECURSIVE JoinOrders(_)
JoinOrders(funds) ==
    IF funds = {} THEN {<<>>}
    ELSE LET f == MinOf(funds)
         IN  {head \o rest : head \in DescOrders(NavRowsOf(f)), rest \in JoinOrders(funds \ {f})}

\* one turn of the loop over the rows: setdefault, then append under the limit
FundsMapStep(funds_map, i, limit) ==
    LET f == fund_navs[i].fund_id
        perf == IF f \in DOMAIN funds_map THEN funds_map[f]
                ELSE [fund_id |-> f,
                      latest_share_value |-> Some(fund_navs[i].share_value),
                      navs |-> <<>>]
        appended == IF ~IsSome(limit) \/ Len(perf.navs) < Get(limit)
                    THEN [perf EXCEPT !.navs = Append(@, FundNavPoint(i))]
                    ELSE perf
    IN  [g \in DOMAIN funds_map \cup {f} |-> IF g = f THEN appended ELSE funds_map[g]]

RECURSIVE FundsMap(_, _)
FundsMap(rows, limit) ==
    IF rows = <<>> THEN <<>>
    ELSE FundsMapStep(FundsMap(SubSeq(rows, 1, Len(rows) - 1), limit), rows[Len(rows)], limit)

\* FundRepository.get_fund_performance; rows is the query's row order
get_fund_performance(limit, rows) ==
    LET funds_map == FundsMap(rows, limit)
        order == SortedSeq(DOMAIN funds_map)
    IN  [k \in 1..Len(order) |->
            [funds_map[order[k]] EXCEPT !.navs = SortByDate(@)]]

\* a route whose limit parameter has no default
QueryLimit_NoDefault(limit) == limit

\* the limit a route hands to the repository: Query(12, ...)
QueryLimit(limit) == IF IsSome(limit) THEN limit ELSE Some(DefaultLimit)

\* ge=1, le=365
LimitValid(limit) ==
    IsSome(limit) => (MinQueryLimit <= Get(limit) /\ Get(limit) <= MaxQueryLimit)

\* GET /funds/{fund_id}/performance
fund_performance_by_id_route(fund_id, limit) ==
    /\ IF ~LimitValid(QueryLimit(limit))
       THEN response' = Reply("fund_performance_by_id", 422, <<fund_id, limit>>, None)
       ELSE \E rows \in DescOrders(NavRowsOf(fund_id)) :
               LET performance == get_fund_performance_by_id(fund_id, QueryLimit(limit), rows)
               IN  response' = Reply("fund_performance_by_id",
                                     IF IsSome(performance) THEN 200 ELSE 404,
                                     <<fund_id, limit>>, performance)
    /\ UNCHANGED <<elsewhere, ledger, schema, txn>>

\* GET /funds/performance
fund_performance_route(limit) ==
    /\ IF ~LimitValid(QueryLimit(limit))
       THEN response' = Reply("fund_performance", 422, <<NoFund, limit>>, None)
       ELSE \E rows \in JoinOrders(Funds) :
               response' = Reply("fund_performance", 200, <<NoFund, limit>>,
                                 get_fund_performance(QueryLimit(limit), rows))
    /\ UNCHANGED <<elsewhere, ledger, schema, txn>>

\* Limits a request may carry: none, or a number (0 is out of range)
LimitInputs == Opt((0..MaxLimit) \cup {DefaultLimit, DefaultLimit + 1})

\* NAV tables: the k-th row created carries the share value 900 + k
NavRow(f, d, k) == [fund_id |-> f, as_of_date |-> d, share_value |-> Dec(900 + k, 0)]

RECURSIVE Tables(_)
Tables(n) ==
    IF n = 0 THEN {<<>>}
    ELSE LET shorter == Tables(n - 1)
         IN  shorter \cup {Append(t, NavRow(f, d, n)) :
                              t \in {x \in shorter : Len(x) = n - 1},
                              f \in Funds, d \in 1..MaxPerfDate}

\* n rows of one fund created in an order that is a rotation of the date order
LongTable(f, n, shift) ==
    [i \in 1..n |-> NavRow(f, ((i + shift) % n) + 1, i)]

LongTables ==
    {LongTable(f, n, shift) : f \in Funds, n \in (MaxPerfNavs + 1)..MaxPerfRows,
                              shift \in {0, 1, MaxPerfNavs}}

NavTables == Tables(MaxPerfNavs) \cup LongTables

InitNav ==
    /\ has_commission_rate = FALSE
    /\ commission_rate = [a \in Accounts |-> None]
    /\ cash_movements = <<>>
    /\ fund_share_movements = <<>>
    /\ fund_navs \in NavTables
    /\ response = Reply("none", 0, None, None)
    /\ txn = Idle
    /\ InitElsewhere

NextNav ==
    \/ \E f \in Funds \cup {NoFund}, l \in LimitInputs : fund_performance_by_id_route(f, l)
    \/ \E l \in LimitInputs : fund_performance_route(l)
    \/ get_latest_navs_map

SpecNav == InitNav /\ [][NextNav]_vars

----------------------------------------------------------------------------

\* A request by a non-admin to an admin route is rejected before its payload
\* is looked at: one payload stands for all of them
Payload(u, S) == IF IsAdmin(u) THEN S ELSE {CHOOSE x \in S : TRUE}

Next ==
    \/ \E u \in Users :
       \E a \in Payload(u, Accounts \cup {NoAccount}), t \in Payload(u, CashMovementType),
          x \in Payload(u, Amounts), f \in Payload(u, Opt({NoFund})) :
          create_cash_movement(u, a, t, x, f)
    \/ \E u \in Users :
       \E id \in Payload(u, 1..MaxCash), t \in Payload(u, Opt(CashMovementType)),
          x \in Payload(u, Opt(Amounts)), f \in Payload(u, Opt({NoFund})) :
          update_cash_movement(u, id, t, x, f)
    \/ \E u \in Users : \E id \in Payload(u, 1..MaxCash) : delete_cash_movement(u, id)
    \/ \E u \in Users :
       \E a \in Payload(u, Accounts \cup {NoAccount}), f \in Payload(u, Funds),
          t \in Payload(u, FundShareMovementType), s \in Payload(u, Shares) :
          create_fund_share_movement(u, a, f, None, t, s)
    \/ \E u \in Users :
       \E id \in Payload(u, 1..MaxShares), f \in Payload(u, Opt(Funds)),
          s \in Payload(u, Opt(Shares)) :
          update_fund_share_movement(u, id, f, s)
    \/ \E u \in Users : \E id \in Payload(u, 1..MaxShares) : delete_fund_share_movement(u, id)
    \/ \E u \in Users :
       \E f \in Payload(u, Funds \cup {NoFund}), d \in Payload(u, Dates),
          v \in Payload(u, ShareValues) :
          create_nav(u, f, d, v)
    \/ \E u \in Users :
       \E id \in Payload(u, 1..MaxNavs), d \in Payload(u, Opt(Dates)),
          v \in Payload(u, Opt(ShareValues)) :
          update_nav(u, id, d, v)
    \/ \E u \in Users : \E id \in Payload(u, 1..MaxNavs) : delete_nav(u, id)
    \/ \E u \in Users : list_my_accounts(u)
    \/ \E u \in Users : list_all_accounts(u)
    \/ get_latest_navs_map

Spec == Init /\ [][Next]_vars

\* one value to stand for a request field that plays no part
One(S) == {CHOOSE x \in S : TRUE}

----------------------------------------------------------------------------
(* _get_account_summaries as it runs next to the writers: one connection and one        *)
(* transaction (get_db), in which the account query, the position query and the         *)
(* latest-NAV query are three statements                                                *)

\* get_db hands out the pooled connection as it is: the transaction runs at the
\* isolation level the server is configured with
IsolationLevels == {"read committed", "repeatable read"}

\* what a later statement returns: under repeatable read, what it returns on the ledger
\* of the first statement; under read committed, what it returns on the ledger of now
Visible(isolation, on_snapshot, on_ledger) ==
    IF isolation = "repeatable read" THEN on_snapshot ELSE on_ledger

\* the account query, first statement to read the ledger
summary_account_query(filter_user_id, isolation) ==
    /\ txn.pc \in {"idle", "done"}
    /\ txn' = [pc |-> "positions",
               filter_user_id |-> filter_user_id,
               isolation |-> isolation,
               account_rows |-> AccountQuery(filter_user_id),
               positions_map |-> NoPositions,
               nav_map |-> <<>>,
               snapshot |-> [positions_map |-> PositionQuery(filter_user_id),
                             nav_maps |-> NavMaps]]
    /\ UNCHANGED <<elsewhere, ledger, schema, response>>

\* the position query, run `if account_rows:`
summary_position_query ==
    /\ txn.pc = "positions"
    /\ txn' = [txn EXCEPT
                 !.pc = "navs",
                 !.positions_map =
                     IF txn.account_rows /= <<>>
                     THEN Visible(txn.isolation, txn.snapshot.positions_map,
                                  PositionQuery(txn.filter_user_id))
                     ELSE NoPositions]
    /\ UNCHANGED <<elsewhere, ledger, schema, response>>

\* the latest-NAV query, the loop over account_rows and the return
summary_nav_query ==
    /\ txn.pc = "navs"
    /\ \E nav_map \in Visible(txn.isolation, txn.snapshot.nav_maps, NavMaps) :
          /\ txn' = [txn EXCEPT !.pc = "done", !.nav_map = nav_map]
          /\ response' = Reply("account_summaries", 200, txn.filter_user_id,
                               Summaries(txn.account_rows, txn.positions_map, nav_map))
    /\ UNCHANGED <<elsewhere, ledger, schema>>

\* GET /accounts/me step by step, and an admin creating rows meanwhile
NextTxn ==
    \/ \E u \in Users, isolation \in IsolationLevels : summary_account_query(Some(u), isolation)
    \/ summary_position_query
    \/ summary_nav_query
    \/ \E u \in {v \in Users : IsAdmin(v)}, a \in Accounts :
       \E t \in One(CashMovementType), x \in One(Amounts) :
          create_cash_movement(u, a, t, x, None)
    \/ \E u \in {v \in Users : IsAdmin(v)}, a \in Accounts, f \in Funds :
       \E t \in One(FundShareMovementType), s \in One(Shares) :
          create_fund_share_movement(u, a, f, None, t, s)
    \/ \E u \in {v \in Users : IsAdmin(v)}, f \in Funds :
       \E d \in One(Dates), v \in ShareValues :
          create_nav(u, f, d, v)

SpecTxn == Init /\ [][NextTxn]_vars

\* The write routes alone, with requests that name any account id and any fund id;
\* the other fields of a request carry one value each
NextRefs ==
    \/ \E u \in Users :
       \E a \in Payload(u, Accounts \cup {NoAccount}), t \in One(CashMovementType),
          x \in One(Amounts), f \in Payload(u, Opt(Funds \cup {NoFund})) :
          create_cash_movement(u, a, t, x, f)
    \/ \E u \in Users :
       \E id \in Payload(u, 1..MaxCash), t \in Opt(One(CashMovementType)),
          x \in Opt(One(Amounts)), f \in Payload(u, Opt(Funds \cup {NoFund})) :
          update_cash_movement(u, id, t, x, f)
    \/ \E u \in Users : \E id \in Payload(u, 1..MaxCash) : delete_cash_movement(u, id)
    \/ \E u \in Users :
       \E a \in Payload(u, Accounts \cup {NoAccount}), f \in Payload(u, Funds \cup {NoFund}),
          t \in One(FundShareMovementType), s \in One(Shares) :
          create_fund_share_movement(u, a, f, None, t, s)
    \/ \E u \in Users :
       \E id \in Payload(u, 1..MaxShares), f \in Payload(u, Opt(Funds \cup {NoFund})),
          s \in Opt(One(Shares)) :
          update_fund_share_movement(u, id, f, s)
    \/ \E u \in Users : \E id \in Payload(u, 1..MaxShares) : delete_fund_share_movement(u, id)
    \/ \E u \in Users :
       \E f \in Payload(u, Funds \cup {NoFund}), d \in One(Dates), v \in One(ShareValues) :
          create_nav(u, f, d, v)
    \/ \E u \in Users :
       \E id \in Payload(u, 1..MaxNavs), d \in Opt(One(Dates)), v \in Opt(One(ShareValues)) :
          update_nav(u, id, d, v)
    \/ \E u \in Users : \E id \in Payload(u, 1..MaxNavs) : delete_nav(u, id)

SpecRefs == Init /\ [][NextRefs]_vars

\* An admin creating and updating cash movements of every type, with and without a
\* fund id, and creating fund share movements with and without a cash_movement_id
NextDeposit ==
    \/ \E u \in {v \in Users : IsAdmin(v)}, a \in Accounts, t \in CashMovementType :
       \E x \in One(Amounts), f \in Opt(Funds) :
          create_cash_movement(u, a, t, x, f)
    \/ \E u \in {v \in Users : IsAdmin(v)}, id \in 1..MaxCash :
       \E t \in Opt(CashMovementType), x \in Opt(One(Amounts)), f \in Opt(Funds) :
          update_cash_movement(u, id, t, x, f)
    \/ \E u \in {v \in Users : IsAdmin(v)}, a \in Accounts, f \in Funds :
       \E c \in Opt(DOMAIN cash_movements), t \in FundShareMovementType, s \in One(Shares) :
          create_fund_share_movement(u, a, f, c, t, s)

SpecDeposit == Init /\ [][NextDeposit]_vars

----------------------------------------------------------------------------
(* RateLimitMiddleware (middleware/rate_limit.py): requests *)

\* what the middleware leaves alone
besides_limiter == <<ledger, schema, response, txn, scoped, identity>>

\* time passes between two requests
Elapse == {30, 300}

Tick ==
    /\ \E d \in Elapse :
          /\ clock + d <= MaxClock
          /\ clock' = clock + d
    /\ UNCHANGED <<besides_limiter, request_times, last_cleanup, passed, answer>>

\* x-forwarded-for (its first element, stripped) before request.client.host
_get_client_ip(forwarded, client) ==
    IF IsSome(forwarded) /\ Get(forwarded) /= "" THEN Get(forwarded)
    ELSE IF IsSome(client) THEN Get(client)
    ELSE "unknown"

\* the filter with a window of one second
RecentRequests_LastSecond(times, now) == SelectSeq(times, LAMBDA t : t > now - 1)

\* [t for t in times if t > cutoff], cutoff = now - 60
RecentRequests(times, now) == SelectSeq(times, LAMBDA t : t > now - 60)

\* request_times and last_cleanup after _cleanup_old_requests() at `now`.  A key
\* deleted from the defaultdict reads as the empty list
_cleanup_old_requests(times, last, now) ==
    IF now - last < CLEANUP_INTERVAL
    THEN [request_times |-> times, last_cleanup |-> last]
    ELSE [request_times |-> [ip \in DOMAIN times |-> RecentRequests(times[ip], now)],
          last_cleanup |-> now]

\* call_next(request) for a request that is not counted
PassUncounted(client_ip) ==
    /\ answer' = [client_ip |-> client_ip, counted |-> FALSE, passed_on |-> TRUE,
                  status_code |-> 0, retry_after |-> None]
    /\ UNCHANGED <<besides_limiter, request_times, last_cleanup, clock, passed>>

\* RateLimitMiddleware.dispatch.  No await stands between the check and the append:
\* the dispatch of one request is one step
dispatch(path, method, forwarded, client) ==
    LET client_ip == _get_client_ip(forwarded, client)
        now       == clock
        cleaned   == _cleanup_old_requests(request_times, last_cleanup, now)
        recent_requests == RecentRequests(cleaned.request_times[client_ip], now)
    IN  IF path = "/health" THEN PassUncounted(client_ip)
        ELSE IF method = "OPTIONS" THEN PassUncounted(client_ip)
        ELSE IF Len(recent_requests) >= max_requests
        THEN /\ request_times' = cleaned.request_times
             /\ last_cleanup' = cleaned.last_cleanup
             /\ answer' = [client_ip |-> client_ip, counted |-> TRUE, passed_on |-> FALSE,
                           status_code |-> 429, retry_after |-> Some("60")]
             /\ UNCHANGED <<besides_limiter, clock, passed>>
        ELSE /\ Len(passed) < MaxPassed
             /\ request_times' = [cleaned.request_times EXCEPT
                                     ![client_ip] = Append(@, now)]
             /\ last_cleanup' = cleaned.last_cleanup
             /\ passed' = Append(passed, [ip |-> client_ip, time |-> now])
             /\ answer' = [client_ip |-> client_ip, counted |-> TRUE, passed_on |-> TRUE,
                           status_code |-> 0, retry_after |-> None]
             /\ UNCHANGED <<besides_limiter, clock>>

\* the requests: request.url.path, request.method, the first element of the
\* x-forwarded-for header if the request has the header, request.client.host if the
\* request has a client
Paths == {"/health", "/api/accounts/me"}

Methods == {"GET", "OPTIONS"}

ForwardedFor == {None, Some(""), Some("10.0.0.1")}

ClientHosts == {None, Some("10.0.0.1")}

NextLimiter ==
    \/ Tick
    \/ \E path \in Paths, method \in Methods, forwarded \in ForwardedFor, client \in ClientHosts :
          dispatch(path, method, forwarded, client)

SpecLimiter == Init /\ [][NextLimiter]_vars

----------------------------------------------------------------------------
(* get_db (database.py) and the repository calls that run inside it (db_models.py),   *)
(* statement by statement.  A call is one or two get_db scopes, one after the other.  *)

\* what get_db and the statements inside it leave alone
besides_scoped == <<schema, response, txn, limiter, identity, fund_navs>>

Table(t) == IF t = "cash_movements" THEN cash_movements ELSE fund_share_movements

\* the columns the UPDATE of each table can set
UpdatableFields(t) ==
    IF t = "cash_movements" THEN {"type", "amount"} ELSE {"fund_id", "shares_change"}

\* `updates`: the columns the request gives a value for
Updates(t, data) == {f \in UpdatableFields(t) : IsSome(data[f])}

UpdatedRow(row, t, data) ==
    [f \in DOMAIN row |-> IF f \in Updates(t, data) THEN Get(data[f]) ELSE row[f]]

\* the request fields of the two update calls; None = not given
NoData == [type |-> None, amount |-> None, fund_id |-> None, shares_change |-> None]

\* a table with a write applied
Apply(rows, write) ==
    CASE write.kind = "insert" -> Insert(rows, write.data)
      [] write.kind = "update" ->
            IF write.id \in DOMAIN rows
            THEN [rows EXCEPT ![write.id] = UpdatedRow(@, write.table, write.data)]
            ELSE rows
      [] write.kind = "delete" ->
            IF write.id \in DOMAIN rows THEN Delete(rows, write.id) ELSE rows

\* a repository method is entered: no connection is held yet
Enter(op, table, id, data) ==
    /\ call.pc \in {"idle", "returned", "raised"}
    /\ call' = [NoCall EXCEPT !.op = op, !.pc = "getconn", !.table = table, !.id = id,
                              !.data = data, !.scope = 1, !.before = ledger]
    /\ UNCHANGED <<besides_scoped, ledger, pool, pending>>

\* MovementRepository.create_cash_movement(movement_data)
MovementRepository_create_cash_movement(account_id, type, amount) ==
    /\ Len(cash_movements) < MaxCash
    /\ Enter("create_cash_movement", "cash_movements", 0,
             [account_id |-> account_id, type |-> type, amount |-> amount])

\* MovementRepository.find_cash_movement_by_id(movement_id)
MovementRepository_find_cash_movement_by_id(movement_id) ==
    Enter("find_cash_movement_by_id", "cash_movements", movement_id, NoData)

\* MovementRepository.update_cash_movement(movement_id, movement_data)
MovementRepository_update_cash_movement(movement_id, type, amount) ==
    Enter("update_cash_movement", "cash_movements", movement_id,
          [NoData EXCEPT !.type = type, !.amount = amount])

\* MovementRepository.delete_cash_movement(movement_id)
MovementRepository_delete_cash_movement(movement_id) ==
    Enter("delete_cash_movement", "cash_movements", movement_id, NoData)

\* MovementRepository.update_fund_share_movement(movement_id, movement_data)
MovementRepository_update_fund_share_movement(movement_id, fund_id, shares_change) ==
    Enter("update_fund_share_movement", "fund_share_movements", movement_id,
          [NoData EXCEPT !.fund_id = fund_id, !.shares_change = shares_change])

\* the statement that the current scope of the call runs.  An update with no column to
\* set is find_..._by_id; any other update is the UPDATE in one scope and, if it
\* matched a row, find_..._by_id in a second scope
Statement ==
    CASE call.op = "create_cash_movement" -> "insert"
      [] call.op = "delete_cash_movement" -> "delete"
      [] call.op = "find_cash_movement_by_id" -> "select"
      [] OTHER -> IF Updates(call.table, call.data) = {} THEN "select"
                  ELSE IF call.scope = 1 THEN "update" ELSE "select"

\* conn = pool.getconn(): the idle connection put back last, a new connection when
\* none is idle, PoolError when maxconn connections are in use
getconn ==
    /\ call.pc = "getconn"
    /\ IF pool.free /= <<>>
       THEN LET c == pool.free[Len(pool.free)]
            IN  /\ pool' = [free |-> SubSeq(pool.free, 1, Len(pool.free) - 1),
                            used |-> pool.used \cup {c}]
                /\ call' = [call EXCEPT !.pc = "body", !.conn = Some(c), !.wrote = FALSE,
                                          !.before = ledger]
       ELSE IF Cardinality(pool.used) < maxconn
       THEN LET c == MinOf((1..maxconn) \ pool.used)
            IN  /\ pool' = [pool EXCEPT !.used = @ \cup {c}]
                /\ call' = [call EXCEPT !.pc = "body", !.conn = Some(c), !.wrote = FALSE,
                                          !.before = ledger]
       ELSE /\ call' = [call EXCEPT !.pc = "except", !.exc = TRUE]
            /\ UNCHANGED pool
    /\ UNCHANGED <<besides_scoped, ledger, pending>>

\* the body of `with get_db() as conn:`: one statement and what is made of its row.
\* It may raise before the statement took effect or after
scope_body ==
    /\ call.pc = "body"
    /\ LET c     == Get(call.conn)
           rows  == Table(call.table)
           found == call.id \in DOMAIN rows
           write == IF Statement = "select" THEN None
                    ELSE Some([kind |-> Statement, table |-> call.table, id |-> call.id,
                               data |-> call.data])
           result == CASE Statement = "insert" -> Some(call.data)
                       [] Statement = "select" -> IF found THEN Some(rows[call.id]) ELSE None
                       [] Statement = "delete" -> Some(found)
                       [] Statement = "update" -> None
       IN  \E outcome \in {"ok", "raised before", "raised after"} :
              /\ pending' = IF outcome = "raised before" THEN pending
                            ELSE [pending EXCEPT ![c] = write]
              /\ call' = IF outcome = "ok"
                         THEN [call EXCEPT !.pc = "commit", !.bodies = @ + 1,
                                           !.wrote = IsSome(write),
                                           !.rowcount = IF Statement = "insert" \/ found
                                                        THEN 1 ELSE 0,
                                           !.existed = IF Statement = "update" THEN found
                                                       ELSE @,
                                           !.result = result]
                         ELSE [call EXCEPT !.pc = "except", !.bodies = @ + 1, !.exc = TRUE,
                                           !.wrote = outcome = "raised after" /\ IsSome(write)]
    /\ UNCHANGED <<besides_scoped, ledger, pool>>

\* conn.commit(): the write of the transaction reaches the tables, or commit raises
commit ==
    /\ call.pc = "commit"
    /\ LET c == Get(call.conn)
           w == pending[c]
       IN  \E ok \in BOOLEAN :
              IF ok
              THEN /\ cash_movements' =
                         IF IsSome(w) /\ Get(w).table = "cash_movements"
                         THEN Apply(cash_movements, Get(w)) ELSE cash_movements
                   /\ fund_share_movements' =
                         IF IsSome(w) /\ Get(w).table = "fund_share_movements"
                         THEN Apply(fund_share_movements, Get(w)) ELSE fund_share_movements
                   /\ pending' = [pending EXCEPT ![c] = None]
                   /\ call' = [call EXCEPT !.pc = "finally"]
              ELSE /\ call' = [call EXCEPT !.pc = "except", !.exc = TRUE]
                   /\ UNCHANGED <<cash_movements, fund_share_movements, pending>>
    /\ UNCHANGED <<besides_scoped, pool>>

\* a connection handed back with its transaction still open
RolledBack_Not(c) == pending

\* the transactions of the connections after conn.rollback()
RolledBack(c) == [pending EXCEPT ![c] = None]

\* except Exception: conn.rollback() if conn, then raise.  When rollback raises too the
\* connection is broken: the server drops its transaction, the connection is closed
rollback ==
    /\ call.pc = "except"
    /\ IF IsSome(call.conn)
       THEN \E ok \in BOOLEAN :
               /\ pending' = RolledBack(Get(call.conn))
               /\ call' = [call EXCEPT !.pc = "finally", !.closed = ~ok]
       ELSE /\ call' = [call EXCEPT !.pc = "finally"]
            /\ UNCHANGED pending
    /\ UNCHANGED <<besides_scoped, ledger, pool>>

\* the pool when the connection is handed back only after a scope that did not raise
PutBack_UnlessRaised(exc, c, closed) ==
    IF exc THEN pool
    ELSE [free |-> IF closed THEN pool.free ELSE Append(pool.free, c),
          used |-> pool.used \ {c}]

\* the pool after pool.putconn(conn): a closed connection is dropped
PutBack(exc, c, closed) ==
    [free |-> IF closed THEN pool.free ELSE Append(pool.free, c),
     used |-> pool.used \ {c}]

\* finally: pool.putconn(conn) if conn.  Then the exception leaves the call, or the
\* call goes on to its second scope, or it returns
putconn ==
    /\ call.pc = "finally"
    /\ pool' = IF IsSome(call.conn) THEN PutBack(call.exc, Get(call.conn), call.closed)
               ELSE pool
    /\ call' = IF call.exc
               THEN [call EXCEPT !.pc = "raised", !.raised = @ + 1, !.conn = None,
                                 !.closed = FALSE]
               ELSE IF Statement = "update" /\ call.rowcount > 0
               THEN [call EXCEPT !.pc = "getconn", !.scope = 2, !.conn = None]
               ELSE [call EXCEPT !.pc = "returned", !.conn = None]
    /\ UNCHANGED <<besides_scoped, ledger, pending>>

\* the repository calls
Enters ==
    \/ \E a \in One(Accounts), t \in One(CashMovementType), x \in One(Amounts) :
          MovementRepository_create_cash_movement(a, t, x)
    \/ \E id \in 1..MaxCash : MovementRepository_find_cash_movement_by_id(id)
    \/ \E id \in 1..MaxCash, t \in Opt({"fee"}), x \in One(Opt(Amounts)) :
          MovementRepository_update_cash_movement(id, t, x)
    \/ \E id \in 1..MaxCash : MovementRepository_delete_cash_movement(id)

\* one process calling the repository, one call at a time
NextScoped ==
    \/ Enters
    \/ getconn
    \/ scope_body
    \/ commit
    \/ rollback
    \/ putconn

SpecScoped == Init /\ [][NextScoped]_vars

\* no transaction holds a written row: an UPDATE or DELETE of another process waits
\* for the row lock until the transaction that wrote the row ends
Unlocked == \A c \in DOMAIN pending : pending[c] = None

\* this process has not called the repository yet
Quiet == call.pc = "idle"

\* This process updating movements through the repository, and another process of the
\* application, an admin's requests served whole, creating rows beforehand and updating
\* or deleting the newest row of a table in between
NextUpdate ==
    \/ \E id \in 1..MaxCash : MovementRepository_update_cash_movement(id, Some("fee"), None)
    \/ \E id \in 1..MaxShares :
          MovementRepository_update_fund_share_movement(id, None, Some(Dec(1, 0)))
    \/ getconn
    \/ scope_body
    \/ commit
    \/ rollback
    \/ putconn
    \/ \E u \in {v \in Users : IsAdmin(v)}, a \in One(Accounts) :
          Quiet /\ create_cash_movement(u, a, "deposit", Dec(1000, 0), None)
    \/ \E u \in {v \in Users : IsAdmin(v)}, a \in One(Accounts), f \in One(Funds) :
          Quiet /\ create_fund_share_movement(u, a, f, None, "subscription", Dec(2, 0))
    \/ \E u \in {v \in Users : IsAdmin(v)} :
          Unlocked /\ update_cash_movement(u, Len(cash_movements), Some("withdrawal"), None, None)
    \/ \E u \in {v \in Users : IsAdmin(v)} :
          Unlocked /\ delete_cash_movement(u, Len(cash_movements))
    \/ \E u \in {v \in Users : IsAdmin(v)} :
          Unlocked /\ update_fund_share_movement(u, Len(fund_share_movements), None, Some(Dec(3, 0)))
    \/ \E u \in {v \in Users : IsAdmin(v)} :
          Unlocked /\ delete_fund_share_movement(u, Len(fund_share_movements))

SpecUpdate == Init /\ [][NextUpdate]_vars

----------------------------------------------------------------------------
(* Users and authentication (middleware/auth.py, routers/users.py): requests *)

\* what the user routes and get_current_user leave alone
besides_identity == <<ledger, schema, response, txn, limiter, scoped>>

\* the Firebase subjects
Uids == {"uid-1", "uid-2"}

\* HTTPBearer(auto_error=False): no credentials, or a token: empty, one that does not
\* verify, or one that verifies to a uid
Credentials == {None, Some(""), Some("bad")} \cup {Some(uid) : uid \in Uids}

\* auth.verify_id_token(token)["uid"]; None when it raises
verify_id_token(token) == IF settings.firebase_app /\ token \in Uids THEN Some(token) ELSE None

\* AppUser(**dict(row))
AppUser(id) == [id |-> id, firebase_uid |-> app_users[id].firebase_uid,
                status |-> app_users[id].status]

\* UserRepository.find_by_id
UserRepository_find_by_id(user_id) ==
    IF user_id \in DOMAIN app_users THEN Some(AppUser(user_id)) ELSE None

\* UserRepository.find_by_firebase_uid: what fetchone() may return
UserRepository_find_by_firebase_uid(firebase_uid) ==
    LET found == {i \in DOMAIN app_users : app_users[i].firebase_uid = firebase_uid}
    IN  IF found = {} THEN {None} ELSE {Some(AppUser(i)) : i \in found}

\* the outcomes of get_current_user: the user returned, or the HTTPException raised
CurrentUser(credentials) ==
    IF settings.dev_mode
    THEN IF IsSome(settings.dev_user_id) /\ Get(settings.dev_user_id) /= 0
         THEN LET user == UserRepository_find_by_id(Get(settings.dev_user_id))
              IN  IF IsSome(user) THEN {[status_code |-> 200, user |-> user]}
                  ELSE {[status_code |-> 404, user |-> None]}
         ELSE {[status_code |-> 400, user |-> None]}
    ELSE IF ~settings.firebase_app THEN {[status_code |-> 503, user |-> None]}
    ELSE IF ~IsSome(credentials) THEN {[status_code |-> 401, user |-> None]}
    ELSE IF Get(credentials) = "" THEN {[status_code |-> 401, user |-> None]}
    ELSE IF ~IsSome(verify_id_token(Get(credentials)))
    THEN {[status_code |-> 401, user |-> None]}
    ELSE {IF ~IsSome(user) THEN [status_code |-> 404, user |-> None]
          ELSE IF Get(user).status /= "active" THEN [status_code |-> 403, user |-> None]
          ELSE [status_code |-> 200, user |-> user] :
             user \in UserRepository_find_by_firebase_uid(
                          Get(verify_id_token(Get(credentials))))}

\* Depends(get_current_user) of a request
get_current_user(credentials) ==
    /\ \E outcome \in CurrentUser(credentials) : current_user' = outcome
    /\ UNCHANGED <<besides_identity, app_users, uid_unique, settings, requests, answers>>

\* Depends(require_admin): the request carries credentials that get_current_user
\* resolves to a user; any user may have is_admin set
require_admin ==
    \E credentials \in Credentials :
        \E outcome \in CurrentUser(credentials) : outcome.status_code = 200

\* a request answered with `code` before it reached the table
Answered(r, kind, code) ==
    /\ requests' = [requests EXCEPT ![r] = [kind |-> kind, pc |-> "done",
                                            firebase_uid |-> "none", status |-> "none",
                                            code |-> code]]
    /\ UNCHANGED <<besides_identity, app_users, uid_unique, settings, answers, current_user>>

\* `existing = UserRepository.find_by_firebase_uid(...)`: 409 if a row is found,
\* otherwise the request goes on to UserRepository.create
CheckExisting(r, kind, firebase_uid, status) ==
    /\ Len(answers) < MaxAnswers
    /\ \E existing \in UserRepository_find_by_firebase_uid(firebase_uid) :
          IF IsSome(existing)
          THEN /\ requests' = [requests EXCEPT ![r] =
                                  [kind |-> kind, pc |-> "done", firebase_uid |-> "none",
                                   status |-> "none", code |-> 409]]
               /\ answers' = Append(answers, [firebase_uid |-> firebase_uid, code |-> 409])
          ELSE /\ requests' = [requests EXCEPT ![r] =
                                  [kind |-> kind, pc |-> "create", firebase_uid |-> firebase_uid,
                                   status |-> status, code |-> 0]]
               /\ UNCHANGED answers
    /\ UNCHANGED <<besides_identity, app_users, uid_unique, settings, current_user>>

\* POST /users/signup, up to the check for an existing user
signup(r, credentials) ==
    /\ requests[r].pc \in {"idle", "done"}
    /\ IF ~IsSome(credentials) THEN Answered(r, "signup", 401)
       ELSE IF ~settings.dev_mode /\ ~settings.firebase_app THEN Answered(r, "signup", 503)
       ELSE IF ~IsSome(verify_id_token(Get(credentials)))
       THEN \E code \in {400, 401} : Answered(r, "signup", code)
       ELSE CheckExisting(r, "signup", Get(verify_id_token(Get(credentials))), "active")

\* POST /users by an admin, up to the check for an existing user
create_user(r, firebase_uid, status) ==
    /\ requests[r].pc \in {"idle", "done"}
    /\ require_admin
    /\ CheckExisting(r, "create_user", firebase_uid, status)

\* UserRepository.create at the end of signup and create_user.  On a table that allows
\* one row per firebase_uid the INSERT of a second row raises: signup answers 400
\* ("Failed to create user"), create_user lets the exception through (500)
UserRepository_create(r) ==
    /\ requests[r].pc = "create"
    /\ LET uid == requests[r].firebase_uid
           taken == \E i \in DOMAIN app_users : app_users[i].firebase_uid = uid
           code == IF uid_unique /\ taken
                   THEN IF requests[r].kind = "signup" THEN 400 ELSE 500
                   ELSE 201
       IN  /\ code = 201 => Len(app_users) < MaxUsers
           /\ app_users' = IF code = 201
                           THEN Append(app_users, [firebase_uid |-> uid,
                                                   status |-> requests[r].status])
                           ELSE app_users
           /\ requests' = [requests EXCEPT ![r] =
                              [kind |-> requests[r].kind, pc |-> "done",
                               firebase_uid |-> "none", status |-> "none", code |-> code]]
           /\ answers' = Append(answers, [firebase_uid |-> uid, code |-> code])
    /\ UNCHANGED <<besides_identity, uid_unique, settings, current_user>>

\* PUT /users/{user_id} by an admin, with a status
update_user(user_id, status) ==
    /\ require_admin
    /\ user_id \in DOMAIN app_users
    /\ app_users' = [app_users EXCEPT ![user_id].status = status]
    /\ UNCHANGED <<besides_identity, uid_unique, settings, requests, answers, current_user>>

\* every configuration: DEV_MODE on or off, DEV_USER_ID set or not, Firebase
\* initialized or not, and app_users with or without one row per firebase_uid
InitUsers ==
    /\ InitLedger
    /\ ~has_commission_rate
    /\ InitLimiter
    /\ InitPool
    /\ InitUserTable
    /\ settings \in [dev_mode : BOOLEAN, dev_user_id : {None, Some(1)}, firebase_app : BOOLEAN]
    /\ uid_unique \in BOOLEAN

NextUsers ==
    \/ \E credentials \in Credentials : get_current_user(credentials)
    \/ \E r \in Requests, credentials \in Credentials : signup(r, credentials)
    \/ \E r \in Requests, firebase_uid \in Uids, status \in {"invited"} :
          create_user(r, firebase_uid, status)
    \/ \E r \in Requests : UserRepository_create(r)
    \/ \E user_id \in 1..MaxUsers, status \in {"active", "suspended"} :
          update_user(user_id, status)

SpecUsers == InitUsers /\ [][NextUsers]_vars

----------------------------------------------------------------------------
(* Decimal strings on their way into and out of fund_share_movements.  A string is    *)
(* the sequence of its characters.                                                     *)

DigitChars == <<"0", "1", "2", "3", "4", "5", "6", "7", "8", "9">>

DigitValue(ch) == (CHOOSE i \in DOMAIN DigitChars : DigitChars[i] = ch) - 1

Abs(n) == IF n < 0 THEN 0 - n ELSE n

\* the decimal digits of a natural number
RECURSIVE Digits(_)
Digits(n) ==
    IF n < 10 THEN <<DigitChars[n + 1]>>
    ELSE Digits(n \div 10) \o <<DigitChars[(n % 10) + 1]>>

\* the natural number a run of digits denotes
RECURSIVE NumberOf(_)
NumberOf(chars) ==
    IF chars = <<>> THEN 0
    ELSE 10 * NumberOf(SubSeq(chars, 1, Len(chars) - 1)) + DigitValue(chars[Len(chars)])

Zeros(n) == [i \in 1..n |-> "0"]

\* a literal [sign] digits [. digits] read as a number: its value, with as many
\* fractional digits as were written
ParsePlain(text) ==
    LET signed == text[1] \in {"-", "+"}
        body == IF signed THEN Tail(text) ELSE text
        dot == IF \E i \in DOMAIN body : body[i] = "."
               THEN CHOOSE i \in DOMAIN body : body[i] = "."
               ELSE Len(body) + 1
        frac == SubSeq(body, dot + 1, Len(body))
        c == NumberOf(SubSeq(body, 1, dot - 1) \o frac)
    IN  Dec(IF text[1] = "-" THEN 0 - c ELSE c, Len(frac))

\* The declared scale of the numeric columns of fund_share_movements: none, they hold
\* decimals of any precision
ColumnScale == None

\* round half away from zero to `scale` fractional digits
Rescale(d, scale) ==
    IF scale >= d.e THEN Dec(d.c * Pow10(scale - d.e), scale)
    ELSE LET unit == Pow10(d.e - scale)
             q == (2 * Abs(d.c) + unit) \div (2 * unit)
         IN  Dec(IF d.c < 0 THEN 0 - q ELSE q, scale)

\* numeric_in: the text of a query parameter stored in a numeric column
NumericIn(text) ==
    IF IsSome(ColumnScale) THEN Rescale(ParsePlain(text), Get(ColumnScale))
    ELSE ParsePlain(text)

\* numeric_out: a numeric as the server sends it, never with an exponent
NumericOut(d) ==
    LET int == Abs(d.c) \div Pow10(d.e)
        frac == Digits(Abs(d.c) % Pow10(d.e))
    IN  (IF d.c < 0 THEN <<"-">> ELSE <<>>)
            \o Digits(int)
            \o (IF d.e > 0 THEN <<".">> \o Zeros(d.e - Len(frac)) \o frac ELSE <<>>)

\* psycopg2's numeric typecaster: Decimal(text)
PyDecimal(text) == ParsePlain(text)

\* "%+d" % n
SignedInt(n) == (IF n < 0 THEN <<"-">> ELSE <<"+">>) \o Digits(Abs(n))

\* str(v) of a Decimal: scientific notation once the value is below 10^-6
DecimalStr(d) ==
    LET digits == Digits(Abs(d.c))
        exp == 0 - d.e
        leftdigits == exp + Len(digits)
        dotplace == IF exp <= 0 /\ leftdigits > -6 THEN leftdigits ELSE 1
        intpart == IF dotplace <= 0 THEN <<"0">>
                   ELSE IF dotplace >= Len(digits)
                        THEN digits \o Zeros(dotplace - Len(digits))
                        ELSE SubSeq(digits, 1, dotplace)
        fracpart == IF dotplace <= 0 THEN <<".">> \o Zeros(0 - dotplace) \o digits
                    ELSE IF dotplace >= Len(digits) THEN <<>>
                         ELSE <<".">> \o SubSeq(digits, dotplace + 1, Len(digits))
        exponent == IF leftdigits = dotplace THEN <<>>
                    ELSE <<"E">> \o SignedInt(leftdigits - dotplace)
    IN  (IF d.c < 0 THEN <<"-">> ELSE <<>>) \o intpart \o fracpart \o exponent

\* convert_decimal of the models: str(v) of the Decimal the driver returns
convert_decimal(d) == DecimalStr(d)

\* FundShareMovement(**dict(row)) of a row the driver returns
FundShareMovement(id, row) ==
    [id |-> id,
     account_id |-> row.account_id,
     fund_id |-> row.fund_id,
     type |-> row.type,
     shares_change |-> convert_decimal(PyDecimal(NumericOut(row.shares_change))),
     share_price |-> convert_decimal(PyDecimal(NumericOut(row.share_price))),
     total_amount |-> convert_decimal(PyDecimal(NumericOut(row.total_amount)))]

\* Decimal strings a request may carry: 1, 1.50, 0.000001, 0.0000001
DecimalStrings ==
    { <<"1">>,
      <<"1", ".", "5", "0">>,
      <<"0", ".", "0", "0", "0", "0", "0", "1">>,
      <<"0", ".", "0", "0", "0", "0", "0", "0", "1">> }

\* POST /movements/fund-share with the three decimal fields as the strings the client
\* sent (str(v) of a str is the str).  The row keeps them in `request`, a record of the
\* request that no query reads
post_fund_share_movement(u, account_id, fund_id, type, shares_change, share_price, total_amount) ==
    IF ~IsAdmin(u) THEN Forbidden(u, FALSE)
    ELSE IF NoSuchAccount(account_id) THEN NotFound(u, TRUE)
    ELSE /\ Len(fund_share_movements) < MaxShares
         /\ LET row == [account_id |-> account_id,
                        fund_id |-> fund_id,
                        cash_movement_id |-> None,
                        type |-> type,
                        shares_change |-> NumericIn(shares_change),
                        share_price |-> NumericIn(share_price),
                        total_amount |-> NumericIn(total_amount),
                        request |-> [shares_change |-> shares_change,
                                     share_price |-> share_price,
                                     total_amount |-> total_amount]]
            IN  /\ fund_share_movements' = Insert(fund_share_movements, row)
                /\ response' = Reply("fund_share_movement", 201,
                                     Len(fund_share_movements) + 1,
                                     Some(FundShareMovement(Len(fund_share_movements) + 1, row)))
         /\ UNCHANGED <<elsewhere, cash_movements, fund_navs, schema, txn>>

\* GET /movements/fund-share/{movement_id}
get_fund_share_movement(u, movement_id) ==
    IF ~IsAdmin(u) THEN Forbidden(u, FALSE)
    ELSE IF movement_id \notin DOMAIN fund_share_movements THEN NotFound(u, FALSE)
    ELSE /\ response' = Reply("fund_share_movement", 200, movement_id,
                              Some(FundShareMovement(movement_id,
                                                     fund_share_movements[movement_id])))
         /\ UNCHANGED <<elsewhere, ledger, schema, txn>>

NextRoundTrip ==
    \/ \E u \in Users :
       \E a \in One(Accounts), f \in One(Funds), t \in One(FundShareMovementType),
          shares_change \in Payload(u, DecimalStrings),
          share_price \in Payload(u, DecimalStrings),
          total_amount \in Payload(u, DecimalStrings) :
          post_fund_share_movement(u, a, f, t, shares_change, share_price, total_amount)
    \/ \E u \in Users, id \in 1..MaxShares : get_fund_share_movement(u, id)

SpecRoundTrip == Init /\ [][NextRoundTrip]_vars

----------------------------------------------------------------------------
(* What the claims speak of, stated over the ledger and the response        *)

IsSummaries == response.op = "account_summaries" /\ response.status = 200

SummaryIndex == IF IsSummaries THEN DOMAIN response.body ELSE {}

\* the cash movements of account a of type t, and their sum
CashOf(a, t) ==
    {i \in Ids(cash_movements) :
        cash_movements[i].account_id = a /\ cash_movements[i].type = t}

SumCash(a, t) == DecSum(CashOf(a, t), [i \in CashOf(a, t) |-> cash_movements[i].amount])

\* the fund share movements of the pair (a, f) of type t, and their sum
SharesOf(a, f, t) ==
    {i \in Ids(fund_share_movements) :
        /\ fund_share_movements[i].account_id = a
        /\ fund_share_movements[i].fund_id = f
        /\ fund_share_movements[i].type = t}

SumShares(a, f, t) ==
    DecSum(SharesOf(a, f, t), [i \in SharesOf(a, f, t) |-> fund_share_movements[i].shares_change])

NetShares(a, f) == DecSub(SumShares(a, f, "subscription"), SumShares(a, f, "redemption"))

DecLt(a, b) == ~DecLe(b, a)

DecOne == Dec(1, 0)

\* D - W - F of account a
NetBeforeCommission(a) ==
    DecSub(DecSub(SumCash(a, "deposit"), SumCash(a, "withdrawal")), SumCash(a, "fee"))

\* the rate of account a: 0 when unset or absent
RateOf(a) ==
    IF has_commission_rate /\ IsSome(commission_rate[a]) THEN Get(commission_rate[a])
    ELSE DecZero

\* MV of a summary: net shares x latest share value over the positions with a latest value
Resolved(s) == {j \in DOMAIN s.positions : IsSome(s.positions[j].latest_share_value)}

MarketValueOf(s) ==
    DecSum(Resolved(s),
           [j \in Resolved(s) |->
               DecMul(s.positions[j].total_shares, Get(s.positions[j].latest_share_value))])

GainsOf(s) == DecSub(MarketValueOf(s), NetBeforeCommission(s.account_id))

CommissionOf(s) ==
    IF DecGtZero(GainsOf(s)) THEN DecMul(GainsOf(s), RateOf(s.account_id)) ELSE DecZero

FundHasNav(f) == \E i \in Ids(fund_navs) : fund_navs[i].fund_id = f

InScope(a) == ~IsSome(response.filter) \/ AccountUser(a) = Get(response.filter)

----------------------------------------------------------------------------
(* Claims *)

\* C1: in every account summary, total_fees = F + C and net_invested = D - W - (F + C),
\* where C = gains x R if gains > 0 and 0 otherwise, gains = MV - (D - W - F)
C1_FeesAndNetInvested ==
    \A k \in SummaryIndex :
        LET s == response.body[k]
            a == s.account_id
            fees == DecAdd(SumCash(a, "fee"), CommissionOf(s))
        IN  /\ DecEq(s.total_fees, fees)
            /\ DecEq(s.net_invested,
                     DecSub(DecSub(SumCash(a, "deposit"), SumCash(a, "withdrawal")), fees))

\* C1 witness: D = 1000, W = 0, F = 0, MV = 1200, R = 0.20 reported as fees 40, net 960
C1_Witness ==
    \E k \in SummaryIndex :
        LET s == response.body[k]
        IN  /\ DecEq(SumCash(s.account_id, "deposit"), Dec(1000, 0))
            /\ DecEq(MarketValueOf(s), Dec(1200, 0))
            /\ DecEq(RateOf(s.account_id), Dec(20, 2))
            /\ DecEq(s.total_fees, Dec(40, 0))
            /\ DecEq(s.net_invested, Dec(960, 0))

\* C2: the rate applied lies in [0,1], the commission lies between 0 and max(gains, 0),
\* and total_fees is never below the explicit fee total F
C2_CommissionBounds ==
    \A k \in SummaryIndex :
        LET s == response.body[k]
            a == s.account_id
            commission == DecSub(s.total_fees, SumCash(a, "fee"))
        IN  /\ DecLe(DecZero, CommissionRate(CommissionRateRaw(a)))
            /\ DecLe(CommissionRate(CommissionRateRaw(a)), DecOne)
            /\ DecLe(DecZero, commission)
            /\ DecLe(commission, IF DecGtZero(GainsOf(s)) THEN GainsOf(s) ELSE DecZero)
            /\ DecLe(SumCash(a, "fee"), s.total_fees)

\* C2 witness: a summary with a positive rate, a gain, and a commission strictly inside it
C2_Witness ==
    \E k \in SummaryIndex :
        LET s == response.body[k]
            commission == DecSub(s.total_fees, SumCash(s.account_id, "fee"))
        IN  /\ DecGtZero(CommissionRate(CommissionRateRaw(s.account_id)))
            /\ DecGtZero(commission)
            /\ DecLt(commission, GainsOf(s))

\* C3: the total_shares of a reported position is the sum of its subscriptions minus the
\* sum of its redemptions, and a movement of any other type contributes zero
C3_TotalShares ==
    /\ \A k \in SummaryIndex :
          LET s == response.body[k]
          IN  \A j \in DOMAIN s.positions :
                 DecEq(s.positions[j].total_shares,
                       NetShares(s.account_id, s.positions[j].fund_id))
    /\ \A t \in CashMovementType, x \in Shares : DecIsZero(SignedShares(t, x))

\* C3 witness: a reported position made of a subscription and a redemption
C3_Witness ==
    \E k \in SummaryIndex :
        LET s == response.body[k]
        IN  \E j \in DOMAIN s.positions :
               /\ SharesOf(s.account_id, s.positions[j].fund_id, "subscription") /= {}
               /\ SharesOf(s.account_id, s.positions[j].fund_id, "redemption") /= {}

\* C4: a pair with net shares exactly zero is never among the positions of its account,
\* and every pair with non-zero net shares is
C4_ZeroPositionsDropped ==
    \A k \in SummaryIndex :
        LET s == response.body[k]
        IN  \A f \in Funds :
               ~DecIsZero(NetShares(s.account_id, f))
                   <=> (\E j \in DOMAIN s.positions : s.positions[j].fund_id = f)

\* C4 witness: a summary of an account whose subscriptions and redemptions in a fund cancel
C4_Witness ==
    \E k \in SummaryIndex :
        LET s == response.body[k]
        IN  \E f \in Funds :
               /\ SharesOf(s.account_id, f, "subscription") /= {}
               /\ SharesOf(s.account_id, f, "redemption") /= {}
               /\ DecIsZero(NetShares(s.account_id, f))
               /\ \A j \in DOMAIN s.positions : s.positions[j].fund_id /= f

\* C5: a pair whose redemptions exceed its subscriptions is reported with its negative net
\* shares and, given a latest NAV, with the negative market value, which is part of the
\* total market value the commission is computed from
C5_NegativePositions ==
    \A k \in SummaryIndex :
        LET s == response.body[k]
            a == s.account_id
            valued == {j \in DOMAIN s.positions : IsSome(s.positions[j].market_value)}
            total == DecSum(valued, [j \in valued |-> Get(s.positions[j].market_value)])
            gains == DecSub(total, NetBeforeCommission(a))
            commission == IF DecGtZero(gains) THEN DecMul(gains, RateOf(a)) ELSE DecZero
        IN  /\ \A f \in Funds :
                  DecLt(NetShares(a, f), DecZero) =>
                      \E j \in DOMAIN s.positions :
                         /\ s.positions[j].fund_id = f
                         /\ DecEq(s.positions[j].total_shares, NetShares(a, f))
                         /\ FundHasNav(f) =>
                               /\ IsSome(s.positions[j].market_value)
                               /\ DecLt(Get(s.positions[j].market_value), DecZero)
                               /\ DecEq(Get(s.positions[j].market_value),
                                        DecMul(NetShares(a, f),
                                               Get(s.positions[j].latest_share_value)))
            /\ DecEq(s.total_fees, DecAdd(SumCash(a, "fee"), commission))

\* C5 witness: a negative position with a market value, in a summary that charges a commission
C5_Witness ==
    \E k \in SummaryIndex :
        LET s == response.body[k]
        IN  /\ \E j \in DOMAIN s.positions :
                  /\ DecLt(s.positions[j].total_shares, DecZero)
                  /\ IsSome(s.positions[j].market_value)
            /\ DecLt(SumCash(s.account_id, "fee"), s.total_fees)

\* C7: a position in a fund without NAV rows is listed with latest_share_value and
\* market_value absent, and adds nothing to the market value the commission comes from
C7_MissingNav ==
    \A k \in SummaryIndex :
        LET s == response.body[k]
            a == s.account_id
            valued == {f \in Funds : FundHasNav(f) /\ ~DecIsZero(NetShares(a, f))}
            price == [f \in valued |->
                        LET j == CHOOSE j \in DOMAIN s.positions : s.positions[j].fund_id = f
                        IN  Get(s.positions[j].latest_share_value)]
            total == DecSum(valued, [f \in valued |-> DecMul(NetShares(a, f), price[f])])
            gains == DecSub(total, NetBeforeCommission(a))
            commission == IF DecGtZero(gains) THEN DecMul(gains, RateOf(a)) ELSE DecZero
        IN  /\ \A f \in Funds :
                  (~FundHasNav(f) /\ ~DecIsZero(NetShares(a, f))) =>
                      \E j \in DOMAIN s.positions :
                         /\ s.positions[j].fund_id = f
                         /\ s.positions[j].latest_share_value = None
                         /\ s.positions[j].market_value = None
            /\ \A f \in valued :
                  \E j \in DOMAIN s.positions :
                     s.positions[j].fund_id = f /\ IsSome(s.positions[j].latest_share_value)
            /\ DecEq(s.total_fees, DecAdd(SumCash(a, "fee"), commission))

\* C7 witness: a summary holding a position without NAV next to a valued one, with commission
C7_Witness ==
    \E k \in SummaryIndex :
        LET s == response.body[k]
        IN  /\ \E j \in DOMAIN s.positions :
                  ~FundHasNav(s.positions[j].fund_id) /\ s.positions[j].market_value = None
            /\ \E j \in DOMAIN s.positions : IsSome(s.positions[j].market_value)
            /\ DecGtZero(s.total_fees)

\* C8: every account in scope without cash and fund share movements is in the result,
\* once, with deposits = withdrawals = fees = net invested = 0 and no positions
C8_EmptyAccounts ==
    IsSummaries =>
        \A a \in Accounts :
            (/\ InScope(a)
             /\ \A i \in Ids(cash_movements) : cash_movements[i].account_id /= a
             /\ \A i \in Ids(fund_share_movements) : fund_share_movements[i].account_id /= a)
            => /\ Cardinality({k \in SummaryIndex : response.body[k].account_id = a}) = 1
               /\ \A k \in SummaryIndex :
                     response.body[k].account_id = a =>
                        /\ DecIsZero(response.body[k].total_deposits)
                        /\ DecIsZero(response.body[k].total_withdrawals)
                        /\ DecIsZero(response.body[k].total_fees)
                        /\ DecIsZero(response.body[k].net_invested)
                        /\ response.body[k].positions = <<>>

\* C8 witness: a summary of an account that has a commission rate and no movement at all,
\* while another account has movements
C8_Witness ==
    /\ IsSummaries
    /\ \E a \in Accounts :
          /\ InScope(a)
          /\ DecGtZero(RateOf(a))
          /\ \A i \in Ids(cash_movements) : cash_movements[i].account_id /= a
          /\ \A i \in Ids(fund_share_movements) : fund_share_movements[i].account_id /= a
          /\ \E k \in SummaryIndex : response.body[k].account_id = a
          /\ Len(cash_movements) > 0

\* the row of fund f with the greatest as_of_date and, among those, the latest created_at
LatestNavRow(f) ==
    CHOOSE i \in NavRowsOf(f) :
        \A j \in NavRowsOf(f) :
            \/ fund_navs[j].as_of_date < fund_navs[i].as_of_date
            \/ fund_navs[j].as_of_date = fund_navs[i].as_of_date /\ j <= i

\* C6: the latest NAV of a fund, as get_latest_navs returns it and as the account summary
\* uses it, is its row with the greatest as_of_date, and the latest created_at among those
C6_LatestNav ==
    /\ (response.op = "latest_navs") =>
          /\ DOMAIN response.body = FundsWithNav
          /\ \A f \in FundsWithNav :
                /\ response.body[f].as_of_date = fund_navs[LatestNavRow(f)].as_of_date
                /\ response.body[f].share_value = fund_navs[LatestNavRow(f)].share_value
    /\ \A k \in SummaryIndex :
          LET s == response.body[k]
          IN  \A j \in DOMAIN s.positions :
                 FundHasNav(s.positions[j].fund_id) =>
                    s.positions[j].latest_share_value
                        = Some(fund_navs[LatestNavRow(s.positions[j].fund_id)].share_value)

----------------------------------------------------------------------------
(* Fund performance *)

IsPerformanceById == response.op = "fund_performance_by_id" /\ response.status = 200

IsPerformance == response.op = "fund_performance" /\ response.status = 200

\* the funds a performance response answers for, and the navs it returns for each
FundsAnswered ==
    IF IsPerformanceById THEN {response.filter[1]}
    ELSE IF IsPerformance THEN Funds
    ELSE {}

NavsFor(f) ==
    IF IsPerformanceById THEN Get(response.body).navs
    ELSE IF \E k \in DOMAIN response.body : response.body[k].fund_id = f
         THEN response.body[CHOOSE k \in DOMAIN response.body :
                                response.body[k].fund_id = f].navs
         ELSE <<>>

RequestedLimit == response.filter[2]

RowPoint(i) == [as_of_date |-> fund_navs[i].as_of_date, share_value |-> fund_navs[i].share_value]

\* navs holds exactly the min(n, number of rows) rows of fund f with the greatest
\* as_of_date, in ascending as_of_date order
MostRecent(navs, f, n) ==
    LET rows == NavRowsOf(f)
        stored(p) == Cardinality({i \in rows : RowPoint(i) = p})
        returned(p) == Cardinality({k \in DOMAIN navs : navs[k] = p})
    IN  /\ Len(navs) = (IF n < Cardinality(rows) THEN n ELSE Cardinality(rows))
        /\ \A k \in 1..(Len(navs) - 1) : navs[k].as_of_date <= navs[k + 1].as_of_date
        /\ \A k \in DOMAIN navs : returned(navs[k]) <= stored(navs[k])
        /\ \A i \in rows :
              (navs /= <<>> /\ fund_navs[i].as_of_date > navs[1].as_of_date)
                  => returned(RowPoint(i)) = stored(RowPoint(i))

\* C9: for a limit N >= 1, both performance operations return for a fund exactly its
\* min(N, number of NAV rows) rows with the greatest as_of_date, ascending
C9_MostRecentN ==
    \A f \in FundsAnswered :
        IsSome(RequestedLimit) => MostRecent(NavsFor(f), f, Get(RequestedLimit))

\* C9 witness: limit 2 over a fund of 3 NAV rows, the latest of which was not created last
C9_Witness ==
    /\ IsPerformance
    /\ RequestedLimit = Some(2)
    /\ \E k \in DOMAIN response.body :
          LET rows == NavRowsOf(response.body[k].fund_id)
          IN  /\ Cardinality(rows) = 3
              /\ Len(response.body[k].navs) = 2
              /\ \E i \in rows : fund_navs[i].as_of_date > fund_navs[MaxOf(rows)].as_of_date

\* C10: without a limit in the request, the performance of a fund is cut to its 12 most
\* recent NAV points
C10_DefaultLimit ==
    \A f \in FundsAnswered :
        RequestedLimit = None => MostRecent(NavsFor(f), f, 12)

\* C10 witness: no limit, a fund of more than 12 NAV rows, 12 points returned
C10_Witness ==
    /\ IsPerformanceById
    /\ RequestedLimit = None
    /\ Cardinality(NavRowsOf(response.filter[1])) > 12
    /\ Len(Get(response.body).navs) = 12

\* C11: the performance of a fund queried by id is, for a fund without NAV rows, a
\* FundPerformance with navs = [] and no latest_share_value (status 200), and for an id
\* that no fund has, None from the repository and 404 from the route
C11_EmptyOrNotFound ==
    (response.op = "fund_performance_by_id" /\ response.status /= 422) =>
        LET fund_id == response.filter[1]
        IN  /\ fund_id \notin Funds => (response.status = 404 /\ response.body = None)
            /\ (fund_id \in Funds /\ NavRowsOf(fund_id) = {}) =>
                   /\ response.status = 200
                   /\ response.body = Some([fund_id |-> fund_id,
                                            latest_share_value |-> None,
                                            navs |-> <<>>])

\* C11 witness: a fund without NAV rows answered with 200 and no navs, while another fund
\* has NAV rows
C11_Witness ==
    /\ IsPerformanceById
    /\ response.filter[1] \in Funds
    /\ NavRowsOf(response.filter[1]) = {}
    /\ fund_navs /= <<>>
    /\ Get(response.body).navs = <<>>
    /\ Get(response.body).latest_share_value = None

\* C12: the performance of all funds holds one FundPerformance per fund, and a fund
\* without NAV rows is in it with navs = [] and no latest_share_value
C12_EveryFundListed ==
    IsPerformance =>
        \A f \in Funds :
            /\ Cardinality({k \in DOMAIN response.body : response.body[k].fund_id = f}) = 1
            /\ NavRowsOf(f) = {} =>
                  \A k \in DOMAIN response.body :
                      response.body[k].fund_id = f =>
                          /\ response.body[k].navs = <<>>
                          /\ response.body[k].latest_share_value = None

\* C13: an account summary computed again for the same filter, with no write in between,
\* is identical to the one computed before, positions and decimal values included
C13_Idempotent ==
    [][(/\ IsSummaries
        /\ IsSummaries'
        /\ response'.filter = response.filter
        /\ ledger' = ledger) => response'.body = response.body]_vars

----------------------------------------------------------------------------
(* Writes *)

IsWrite == response.op = "write"

\* C15: a create, update or delete request of a user who is not an admin is answered
\* with 403 and leaves the three ledger tables as they were
C15_AdminOnlyWrites ==
    [][(IsWrite' /\ ~IsAdmin(response'.filter.user))
          => (response'.status = 403 /\ ledger' = ledger)]_vars

\* C15 witness: a request of a non-admin rejected with 403 while each table holds a row
\* it could have updated or deleted
C15_Witness ==
    /\ IsWrite
    /\ ~IsAdmin(response.filter.user)
    /\ response.status = 403
    /\ cash_movements /= <<>>
    /\ fund_share_movements /= <<>>
    /\ fund_navs /= <<>>

\* C16: a create or update request of an admin that names an account id or a fund id
\* which does not exist is answered with 404 and leaves the ledger as it was
C16_ReferencesChecked ==
    [][(IsWrite' /\ IsAdmin(response'.filter.user) /\ response'.filter.dangling)
          => (response'.status = 404 /\ ledger' = ledger)]_vars

----------------------------------------------------------------------------
(* Summaries as a function of the ledger *)

\* the summary of account a in the response, if the response holds one
SummaryOf(a) == response.body[CHOOSE k \in SummaryIndex : response.body[k].account_id = a]

\* the response holds, for every account in scope, the totals and the positions of the
\* ledger as it is now
ReflectsLedger ==
    \A a \in Accounts :
        InScope(a) =>
            /\ \E k \in SummaryIndex : response.body[k].account_id = a
            /\ DecEq(SummaryOf(a).total_deposits, SumCash(a, "deposit"))
            /\ DecEq(SummaryOf(a).total_withdrawals, SumCash(a, "withdrawal"))
            /\ DecLe(SumCash(a, "fee"), SummaryOf(a).total_fees)
            /\ \A f \in Funds :
                  ~DecIsZero(NetShares(a, f)) =>
                      \E j \in DOMAIN SummaryOf(a).positions :
                          LET pos == SummaryOf(a).positions[j]
                          IN  /\ pos.fund_id = f
                              /\ DecEq(pos.total_shares, NetShares(a, f))
                              /\ IF FundHasNav(f)
                                 THEN \E i \in LatestNavCandidates(f) :
                                         pos.latest_share_value = Some(fund_navs[i].share_value)
                                 ELSE pos.latest_share_value = None

\* C17: the step that computes an account summary changes no stored row, and the summary
\* it returns holds the cash totals, the positions and the latest share values of the
\* ledger at that moment, every write committed before it included
C17_DerivedOnRead ==
    /\ [](IsSummaries => ReflectsLedger)
    /\ [][IsSummaries' => (ledger' = ledger /\ schema' = schema)]_vars

\* C17 witness: a summary computed after a deposit, a subscription and a NAV were written
C17_Witness ==
    /\ IsSummaries
    /\ \E k \in SummaryIndex :
          LET s == response.body[k]
          IN  /\ DecGtZero(s.total_deposits)
              /\ \E j \in DOMAIN s.positions : IsSome(s.positions[j].latest_share_value)

\* C19: every account summary returned has a commission_rate field, holding the rate of
\* the account when the store has one and None when the column or the value is absent
C19_CommissionRateField ==
    \A k \in SummaryIndex :
        /\ "commission_rate" \in DOMAIN response.body[k]
        /\ response.body[k].commission_rate = CommissionRateRaw(response.body[k].account_id)

\* C20: for an account whose commission rate is absent (no column) or null, the summary is
\* computed with a rate of 0: total_fees = F and net_invested = D - W - F
C20_AbsentRateIsZero ==
    IsSummaries =>
        \A a \in Accounts :
            (InScope(a) /\ (~has_commission_rate \/ commission_rate[a] = None)) =>
                /\ \E k \in SummaryIndex : response.body[k].account_id = a
                /\ DecEq(SummaryOf(a).total_fees, SumCash(a, "fee"))
                /\ DecEq(SummaryOf(a).net_invested, NetBeforeCommission(a))

\* C20 witness: a store without the column, and an account with explicit fees and gains
C20_Witness ==
    /\ ~has_commission_rate
    /\ \E k \in SummaryIndex :
          LET s == response.body[k]
          IN  /\ DecGtZero(GainsOf(s))
              /\ DecGtZero(SumCash(s.account_id, "fee"))
              /\ DecEq(s.total_fees, SumCash(s.account_id, "fee"))

----------------------------------------------------------------------------
(* The reads of one computation *)

\* C14: the account query, the position query and the latest-NAV query of one summary
\* computation see the same ledger: what the two later queries return is what they
\* return on the ledger the account query read, whatever was committed since
C14_OneLedgerState ==
    /\ (txn.pc \in {"navs", "done"} /\ txn.account_rows /= <<>>)
          => txn.positions_map = txn.snapshot.positions_map
    /\ txn.pc = "done" => txn.nav_map \in txn.snapshot.nav_maps

----------------------------------------------------------------------------
(* Round trip *)

\* C18: a fund share movement read back by id carries shares_change, share_price and
\* total_amount as the very strings the request that created it carried
C18_RoundTrip ==
    (response.op = "fund_share_movement" /\ response.status = 200) =>
        LET request == fund_share_movements[response.filter].request
            movement == Get(response.body)
        IN  /\ movement.shares_change = request.shares_change
            /\ movement.share_price = request.share_price
            /\ movement.total_amount = request.total_amount

----------------------------------------------------------------------------
\* the subscriptions in `rows` linked to cash movement `id`
LinkedSubscriptions(rows, id) ==
    {i \in DOMAIN rows : rows[i].cash_movement_id = Some(id) /\ rows[i].type = "subscription"}

\* C21: when POST /movements/cash of a deposit with a fund_id succeeds, a fund share
\* movement of type subscription for that account and fund, linked to the new cash
\* movement, exists afterwards
C21_DepositSubscribes ==
    [][\A u \in Users, a \in Accounts, x \in Amounts, f \in Funds :
          create_cash_movement(u, a, "deposit", x, Some(f)) /\ response'.status = 201
          => \E i \in LinkedSubscriptions(fund_share_movements', Len(cash_movements')) :
                /\ fund_share_movements'[i].account_id = a
                /\ fund_share_movements'[i].fund_id = f]_vars

\* C22: when PUT /movements/cash/{id} with a fund_id succeeds on a movement that is a
\* deposit, a movement with no linked subscription has exactly one afterwards, for its
\* account and that fund, and a movement with a linked subscription gets no second one
C22_UpdateSubscribesOnce ==
    [][\A u \in Users, id \in 1..MaxCash, t \in Opt(CashMovementType),
          x \in Opt(Amounts), f \in Funds :
          /\ update_cash_movement(u, id, t, x, Some(f))
          /\ response'.status = 200
          /\ cash_movements'[id].type = "deposit"
          => LET before == LinkedSubscriptions(fund_share_movements, id)
                 after  == LinkedSubscriptions(fund_share_movements', id)
             IN  IF before = {}
                 THEN /\ Cardinality(after) = 1
                      /\ \A i \in after :
                            /\ fund_share_movements'[i].account_id =
                                   cash_movements'[id].account_id
                            /\ fund_share_movements'[i].fund_id = f
                 ELSE after = before]_vars

----------------------------------------------------------------------------
\* the counted requests from `ip` passed on in the 60 seconds up to instant T
PassedOn(ip, T) == {i \in DOMAIN passed : passed[i].ip = ip /\ T - 60 < passed[i].time /\ passed[i].time <= T}

\* the instants at which the number of requests in the preceding 60 seconds is greatest:
\* those at which a request was passed on, and now
Instants == {clock} \cup {passed[i].time : i \in DOMAIN passed}

WithinLimit == \A ip \in ClientIps, T \in Instants : Cardinality(PassedOn(ip, T)) <= max_requests

\* C23: at every instant at most max_requests counted requests of one client IP have
\* been passed on in the preceding 60 seconds; a request to /health and an OPTIONS
\* request is passed on and leaves the quota alone; a counted request that arrives when
\* the limit is reached is answered 429 with Retry-After 60 and is not passed on
C23_RateLimit ==
    /\ []WithinLimit
    /\ [][\A path \in Paths, method \in Methods, forwarded \in ForwardedFor,
             client \in ClientHosts :
             dispatch(path, method, forwarded, client)
             => IF path = "/health" \/ method = "OPTIONS"
                THEN /\ answer'.passed_on
                     /\ request_times' = request_times
                     /\ passed' = passed
                ELSE Cardinality(PassedOn(_get_client_ip(forwarded, client), clock))
                         >= max_requests
                     => /\ answer'.status_code = 429
                        /\ answer'.retry_after = Some("60")
                        /\ ~answer'.passed_on
                        /\ passed' = passed]_vars

\* a counted request was answered 429 after max_requests requests of its client IP
\* were passed on within the last 60 seconds, the first of them earlier than now
C23_Witness ==
    /\ answer.status_code = 429
    /\ Cardinality(PassedOn(answer.client_ip, clock)) = max_requests
    /\ \E i \in PassedOn(answer.client_ip, clock) : passed[i].time < clock

----------------------------------------------------------------------------
\* no repository call is running
AtRest == call.pc \in {"idle", "returned", "raised"}

\* C24: a repository call never holds more than one connection, and when no call is
\* running, whether the last one returned or raised, no connection is checked out
C24_ConnectionsReturned ==
    /\ Cardinality(pool.used) <= 1
    /\ AtRest => pool.used = {}

\* update_cash_movement raised in its second scope, after its first scope committed
C24_Witness ==
    /\ call.pc = "raised"
    /\ call.op = "update_cash_movement"
    /\ call.scope = 2
    /\ pool.used = {}

----------------------------------------------------------------------------
\* an update call that ran its UPDATE has returned
UpdateReturned ==
    /\ call.pc = "returned"
    /\ call.op \in {"update_cash_movement", "update_fund_share_movement"}
    /\ Updates(call.table, call.data) /= {}

\* C28: an update whose id existed when the UPDATE ran returns the row with the values
\* it wrote, and it returns None only when the id did not exist when the UPDATE ran
C28_UpdateReturnsItsRow ==
    UpdateReturned
    => /\ call.existed
          => /\ IsSome(call.result)
             /\ \A f \in Updates(call.table, call.data) :
                   Get(call.result)[f] = Get(call.data[f])
       /\ ~IsSome(call.result) => ~call.existed

----------------------------------------------------------------------------
\* C26: the summaries filtered by user U are one per account of U and none of another
\* account, the unfiltered summaries are one per account, and the positions of a
\* summary are made of the fund share movements of its own account alone
C26_OwnAccountsOnly ==
    IsSummaries =>
        /\ \A a \in Accounts :
              Cardinality({k \in SummaryIndex : response.body[k].account_id = a})
                  = IF InScope(a) THEN 1 ELSE 0
        /\ \A k \in SummaryIndex :
              LET s == response.body[k]
              IN  /\ s.account_id \in Accounts
                  /\ \A j \in DOMAIN s.positions :
                        LET f == s.positions[j].fund_id
                        IN  /\ \E i \in Ids(fund_share_movements) :
                                  /\ fund_share_movements[i].account_id = s.account_id
                                  /\ fund_share_movements[i].fund_id = f
                            /\ DecEq(s.positions[j].total_shares, NetShares(s.account_id, f))

\* the summaries of one user, who holds a position, while an account of another user
\* holds a position too
C26_Witness ==
    /\ IsSummaries
    /\ IsSome(response.filter)
    /\ \E k \in SummaryIndex : response.body[k].positions /= <<>>
    /\ \E i \in Ids(fund_share_movements) :
          /\ ~InScope(fund_share_movements[i].account_id)
          /\ ~DecIsZero(NetShares(fund_share_movements[i].account_id,
                                  fund_share_movements[i].fund_id))

----------------------------------------------------------------------------
\* latest_share_value is the share_value of the last element of navs
LatestIsLast(perf) ==
    perf.navs /= <<>> => perf.latest_share_value = Some(perf.navs[Len(perf.navs)].share_value)

\* the entries that get_fund_performance may return for fund f under the limit of the
\* last request
EntriesOf(f) ==
    {perf \in UNION {{get_fund_performance(QueryLimit(RequestedLimit), rows)[k] :
                         k \in 1..Cardinality(FundsWithNav)} : rows \in JoinOrders(Funds)} :
        perf.fund_id = f}

\* C27: for a fund with a NAV row, the by-id operation returns the navs and the
\* latest_share_value of the fund's entry in the all-funds operation under the same
\* limit, and in both the latest_share_value is the share_value of the last of navs
C27_SamePerformance ==
    /\ IsPerformanceById /\ IsSome(response.body) /\ Get(response.body).navs /= <<>>
       => /\ LatestIsLast(Get(response.body))
          /\ \A perf \in EntriesOf(Get(response.body).fund_id) :
                /\ perf.navs = Get(response.body).navs
                /\ perf.latest_share_value = Get(response.body).latest_share_value
    /\ IsPerformance => \A k \in DOMAIN response.body : LatestIsLast(response.body[k])


\* C29: every user get_current_user returns, in every configuration (Firebase mode
\* and dev mode), has status "active".
C29_OnlyActiveUsers ==
    current_user.status_code = 200 => Get(current_user.user).status = "active"

\* the answers given to the requests that carried firebase_uid
AnswersFor(firebase_uid) ==
    {i \in DOMAIN answers : answers[i].firebase_uid = firebase_uid}

\* C30: after any interleaving of signup and create_user requests carrying the same
\* firebase_uid, at most one row with that firebase_uid exists, exactly one of the
\* requests was answered 201 and every other one 409.
C30_OneUserPerUid ==
    \A firebase_uid \in Uids :
        /\ Cardinality({i \in DOMAIN app_users :
                           app_users[i].firebase_uid = firebase_uid}) <= 1
        /\ (\A r \in Requests : requests[r].pc /= "create") /\ AnswersFor(firebase_uid) /= {}
              => /\ Cardinality({i \in AnswersFor(firebase_uid) : answers[i].code = 201}) = 1
                 /\ \A i \in AnswersFor(firebase_uid) : answers[i].code \in {201, 409}
====
